---- MODULE Spec2Model ----
(***************************************************************************)
(* Marine weather board: forecast cache, staleness policies and            *)
(* nearest-sample selection.                                               *)
(*                                                                         *)
(* Time.  Every instant is a whole number of minutes of local wall-clock   *)
(* time counted from 00:00 on 1 January of a 365-day year (the code's      *)
(* instants are epoch milliseconds read through the local-time accessors   *)
(* of Date; the zone offset is taken as fixed).  Instant 0 of the model is *)
(* NOT the JavaScript epoch: a missing or zero timestamp is NoTimestamp.   *)
(***************************************************************************)
EXTENDS Integers, Sequences, FiniteSets, TLC

VARIABLES
    now,    \* the wall clock: Date.now() / new Date()
    pol,    \* shouldUpdateStormglass applied to a drawn input:
            \*   [last: the lastTimestamp argument, stale: its result, done]
    sel,    \* pickCurrentWave applied to a drawn input:
            \*   [forecast: the argument, result: the returned {waveFt}, done]
    clo,    \* getClosestWave applied to a drawn input:
            \*   [hours: the argument, result: the returned {waveM, waveFt}, done]
    agg,    \* one request to a handler: [handler, method, pc: "received" /
            \*   "awaiting" / "done", st: the state of each adapter, gulf, bay,
            \*   waves, sun, tides: what the adapters returned, month: the
            \*   month source, blob: the month blob, resp: the response]
    card,   \* degToCardinal applied to a drawn bearing:
            \*   [impl: which degToCardinal, d: the argument, result, done]
    conv,   \* fetchStormglassFresh applied to a drawn response of the
            \*   upstream: [resp, threw, entry: what it returned, done]
    pwl,    \* pickWaveForLocalTime applied to a drawn sample list:
            \*   [waves: the argument, offset: getTimezoneOffset(), result, done]
    brd,    \* the board controller (tides_sun.js): lastGoodData, offlineSince,
            \*   the UPDATED/OFFLINE text, the clock and the updateBoard calls
    buoy,   \* fetchBuoy applied to a drawn response of the buoy upstream:
            \*   [impl: which fetchBuoy, resp: the response, out: what the call
            \*    ended with, safe: what the safe wrapper returns, done]
    \* ---- the file-cached handlers (part_000, part_001)
    variant,    \* which of the three cached getters the deployed handler uses
    cacheFile,  \* the file at CACHE_PATH: [exists, timestamp, payload]
    fpc,        \* the invocation: "idle", "fetching" (awaiting the upstream), "returned"
    fret,       \* the value the getter returned: [waveM, waveFt]
    fsource,    \* where that value came from: "none", "cache", "upstream"
    fFetches,   \* upstream forecast requests issued so far
    \* ---- weather.js getStormglassForecast over the GitHub-backed store
    configured, \* GITHUB_TOKEN, GITHUB_REPO and GITHUB_BRANCH are all set
    store,      \* the blob stormglass.json: [exists, sha, parses, entry]
    pc,         \* per pass: "idle", "fetch" (awaiting the upstream), "write" (awaiting the PUT)
    file,       \* per pass: what githubGet returned: [found, sha, parses, entry]
    fresh,      \* per pass: what fetchStormglassFresh returned
    last,       \* the outcome of the call that ended last:
                \*   [pass, kind, why, entry, hadStored]
    \* ---- history of the passes
    version,    \* accepted writes of the blob so far
    seen,       \* per pass: `version` when the pass read the blob
    fetches,    \* upstream forecast requests issued so far
    okFetches   \* upstream forecast requests answered successfully so far

fileVars == <<variant, cacheFile, fpc, fret, fsource, fFetches>>
gitVars == <<configured, store, pc, file, fresh, last, version, seen, fetches, okFetches>>
boardVars == <<clo, buoy, agg>>
uiVars == <<card, conv, pwl, brd>>
vars == <<now, pol, sel, boardVars, uiVars, fileVars, gitVars>>

-----------------------------------------------------------------------------
(* Values of JavaScript that are not instants or magnitudes.               *)

Null == -1          \* null / undefined in a numeric position
NaN == -2           \* the result of parsing an invalid date, and of arithmetic on it
Infinity == -3      \* Infinity, the initial bestDiff
NoTimestamp == -4   \* a falsy stored timestamp (undefined, null, 0)
InvalidTime == -5   \* a sample whose time string does not parse as a date

-----------------------------------------------------------------------------
(* The clock and the calendar of Date's local-time accessors.              *)

Minute == 1
Hour == 60 * Minute
Day == 24 * Hour

MonthLen == <<31, 28, 31, 30, 31, 30, 31, 31, 30, 31, 30, 31>>

RECURSIVE SumLen(_)
SumLen(m) == IF m = 0 THEN 0 ELSE MonthLen[m] + SumLen(m - 1)

DaysPerYear == SumLen(12)

\* The calendar date (year, month, day) of an instant, as a day number.
CalendarDay(t) == t \div Day

RECURSIVE DayInMonth(_, _)
DayInMonth(m, d) ==
    IF d < MonthLen[m] THEN d + 1 ELSE DayInMonth(m + 1, d - MonthLen[m])

\* Date.prototype.getDate(): the day of the month, 1..31.
getDate(t) == DayInMonth(1, CalendarDay(t) % DaysPerYear)

\* Date.prototype.getHours(): the hour of the day, 0..23.
getHours(t) == (t % Day) \div Hour

RECURSIVE MonthIn(_, _)
MonthIn(m, d) == IF d < MonthLen[m] THEN m ELSE MonthIn(m + 1, d - MonthLen[m])

\* Date.prototype.getMonth(), 0..11, and getFullYear(), counted from the
\* year of instant 0.
getMonth(t) == MonthIn(1, CalendarDay(t) % DaysPerYear) - 1
getFullYear(t) == CalendarDay(t) \div DaysPerYear

Abs(x) == IF x < 0 THEN -x ELSE x

-----------------------------------------------------------------------------
(* WAVES - StormGlass (update only at noon/midnight)                       *)

\* The noon test written with > instead of >=: the noon hour itself not counted.
shouldUpdateStormglassNoonExclusive(lastTimestamp) ==
    IF lastTimestamp = NoTimestamp THEN TRUE
    ELSE \/ getDate(now) # getDate(lastTimestamp)
         \/ (getHours(lastTimestamp) < 12 /\ getHours(now) > 12)

\* weather.js shouldUpdateStormglass(lastTimestamp); `now` is new Date().
shouldUpdateStormglass(lastTimestamp) ==
    IF lastTimestamp = NoTimestamp THEN TRUE
    ELSE \/ getDate(now) # getDate(lastTimestamp)
         \/ (getHours(lastTimestamp) < 12 /\ getHours(now) >= 12)

-----------------------------------------------------------------------------
(* The staleness policy on drawn inputs.                                   *)

MaxPolicyDay == 32
PolicyYears == {0, 1}
PolicyTimes == {0, 11 * Hour, 11 * Hour + 30 * Minute, 12 * Hour,
                12 * Hour + 30 * Minute, 23 * Hour + 59 * Minute}
PolicyInstants ==
    {y * DaysPerYear * Day + d * Day + m :
        y \in PolicyYears, d \in 0..MaxPolicyDay, m \in PolicyTimes}

PolIdle == [last |-> NoTimestamp, stale |-> FALSE, done |-> TRUE]

ApplyPolicy ==
    /\ ~pol.done
    /\ pol' = [pol EXCEPT !.stale = shouldUpdateStormglass(pol.last), !.done = TRUE]
    /\ UNCHANGED <<uiVars, now, boardVars, sel, fileVars, gitVars>>

-----------------------------------------------------------------------------
(* Nearest-sample selection.                                               *)

\* new Date(w.time).getTime()
getTime(time) == IF time = InvalidTime THEN NaN ELSE time

\* a - b and Math.abs on numbers that may be NaN
Minus(a, b) == IF a = NaN \/ b = NaN THEN NaN ELSE a - b
MathAbs(x) == IF x = NaN THEN NaN ELSE Abs(x)

\* The comparison written with <= instead of <: a later sample at the same
\* distance replaces the earlier one.
LessThanOrEqual(diff, bestDiff) ==
    /\ diff # NaN
    /\ (bestDiff = Infinity \/ diff <= bestDiff)

\* diff < bestDiff, where diff may be NaN and bestDiff may be Infinity
LessThan(diff, bestDiff) ==
    /\ diff # NaN
    /\ (bestDiff = Infinity \/ diff < bestDiff)

NoSample == [time |-> InvalidTime, waveFt |-> Null]

\* The loop without its `if (w.waveFt == null) continue`.
RECURSIVE pickLoopNoSkip(_, _, _, _)
pickLoopNoSkip(waves, i, best, bestDiff) ==
    IF i > Len(waves) THEN best
    ELSE LET w == waves[i]
             diff == MathAbs(Minus(getTime(w.time), now))
         IN IF LessThan(diff, bestDiff) THEN pickLoopNoSkip(waves, i + 1, w, diff)
            ELSE pickLoopNoSkip(waves, i + 1, best, bestDiff)

\* The for-loop of pickCurrentWave from position i on; returns `best`
\* (NoSample stands for best = null).
RECURSIVE pickLoop(_, _, _, _)
pickLoop(waves, i, best, bestDiff) ==
    IF i > Len(waves) THEN best
    ELSE LET w == waves[i]
             diff == MathAbs(Minus(getTime(w.time), now))
         IN IF w.waveFt = Null THEN pickLoop(waves, i + 1, best, bestDiff)
            ELSE IF LessThan(diff, bestDiff) THEN pickLoop(waves, i + 1, w, diff)
            ELSE pickLoop(waves, i + 1, best, bestDiff)

NoForecast == [timestamp |-> NoTimestamp, waves |-> <<>>, missing |-> TRUE]

\* The selection with 0 instead of null when no sample was chosen.
pickCurrentWaveZeroDefault(forecast) ==
    IF forecast.missing \/ Len(forecast.waves) = 0 THEN [waveFt |-> Null]
    ELSE LET best == pickLoop(forecast.waves, 1, NoSample, Infinity)
         IN [waveFt |-> IF best # NoSample THEN best.waveFt ELSE 0]

\* weather.js pickCurrentWave(forecast); `now` is Date.now().
pickCurrentWave(forecast) ==
    IF forecast.missing \/ Len(forecast.waves) = 0 THEN [waveFt |-> Null]
    ELSE LET best == pickLoop(forecast.waves, 1, NoSample, Infinity)
         IN [waveFt |-> IF best # NoSample THEN best.waveFt ELSE Null]

MaxLen == 3
SelTimes == {1 * Hour, 2 * Hour, 4 * Hour, InvalidTime}
SelValues == {Null, 10, 25}
SelNow == {2 * Hour, 3 * Hour, 5 * Hour}
Samples == [time : SelTimes, waveFt : SelValues]

RECURSIVE SeqsUpTo(_, _)
SeqsUpTo(S, n) ==
    IF n = 0 THEN {<<>>}
    ELSE LET shorter == SeqsUpTo(S, n - 1)
         IN shorter \cup {Append(s, x) : s \in {q \in shorter : Len(q) = n - 1}, x \in S}

SelForecasts ==
    {NoForecast} \cup
    {[timestamp |-> 0, waves |-> ws, missing |-> FALSE] : ws \in SeqsUpTo(Samples, MaxLen)}

SelIdle == [forecast |-> NoForecast, result |-> [waveFt |-> Null], done |-> TRUE]

PickCurrentWave ==
    /\ ~sel.done
    /\ sel' = [sel EXCEPT !.result = pickCurrentWave(sel.forecast), !.done = TRUE]
    /\ UNCHANGED <<uiVars, now, boardVars, pol, fileVars, gitVars>>

-----------------------------------------------------------------------------
(* The upstream forecast (Stormglass) and the unit conversion.             *)
(* A magnitude in metres is held in centimetres, a magnitude in feet in    *)
(* tenths of a foot.                                                       *)

\* oneDec(m * 3.28084) and Math.round(m * 3.28084 * 10) / 10, for m >= 0
FtTenths(cm) == (cm * 328084 + 500000) \div 1000000

\* Responses of the upstream: a transport or HTTP failure (ok = FALSE), a
\* body without hours, or a body with an hourly list of {time, waveHeight.sg}.
HourLists ==
    { <<>>,
      <<[time |-> 0, sg |-> 100], [time |-> 6 * Hour, sg |-> Null],
        [time |-> 12 * Hour, sg |-> 60]>>,
      <<[time |-> 0, sg |-> 0], [time |-> 6 * Hour, sg |-> 150]>> }

UpstreamResponses ==
    {[ok |-> FALSE, hasHours |-> FALSE, hours |-> <<>>],
     [ok |-> TRUE, hasHours |-> FALSE, hours |-> <<>>]}
    \cup {[ok |-> TRUE, hasHours |-> TRUE, hours |-> h] : h \in HourLists}

NullWave == [waveM |-> Null, waveFt |-> Null]

\* The loop `for (const h of hours) { diff = |t - now|; if (diff < best) ... }`
\* of getClosestWave and of part_001's fetchStormglass; returns `closest`.
RECURSIVE closestLoop(_, _, _, _)
closestLoop(hours, i, closest, best) ==
    IF i > Len(hours) THEN closest
    ELSE LET h == hours[i]
             diff == MathAbs(Minus(getTime(h.time), now))
         IN IF LessThan(diff, best) THEN closestLoop(hours, i + 1, h, diff)
            ELSE closestLoop(hours, i + 1, closest, best)

\* part_001 getClosestWave(hours)
getClosestWave(hours) ==
    IF Len(hours) = 0 THEN NullWave
    ELSE LET closest == closestLoop(hours, 1, hours[1], Infinity)
             m == closest.sg
         IN [waveM |-> m, waveFt |-> IF m # Null THEN FtTenths(m) ELSE Null]

\* getClosestWave on drawn inputs: hourly lists of {time, waveHeight.sg}.
CloHours == SeqsUpTo([time : SelTimes, sg : SelValues], MaxLen)

CloIdle == [hours |-> <<>>, result |-> NullWave, done |-> TRUE]

GetClosestWave ==
    /\ ~clo.done
    /\ clo' = [clo EXCEPT !.result = getClosestWave(clo.hours), !.done = TRUE]
    /\ UNCHANGED <<uiVars, now, buoy, agg, pol, sel, fileVars, gitVars>>

\* part_000 fetchStormglass(), given the upstream's response: the first hour.
fetchStormglassFirst(resp) ==
    IF ~resp.ok THEN NullWave
    ELSE LET m == IF resp.hasHours /\ Len(resp.hours) > 0 THEN resp.hours[1].sg ELSE Null
         IN [waveM |-> m, waveFt |-> IF m # Null /\ m # 0 THEN FtTenths(m) ELSE Null]

\* part_001 fetchStormglass(), given the upstream's response: the closest hour;
\* data.hours[0] of a missing or empty list throws, and the catch returns nulls.
fetchStormglassClosest(resp) ==
    IF ~resp.ok \/ ~resp.hasHours \/ Len(resp.hours) = 0 THEN NullWave
    ELSE LET m == closestLoop(resp.hours, 1, resp.hours[1], Infinity).sg
         IN [waveM |-> m, waveFt |-> IF m # Null THEN FtTenths(m) ELSE Null]

\* part_001 fetchStormglassHours(), given the upstream's response
fetchStormglassHours(resp) ==
    IF ~resp.ok \/ ~resp.hasHours THEN <<>> ELSE resp.hours

-----------------------------------------------------------------------------
(* The file-cached getters: getStormglassCached (part_000), getCachedWaves  *)
(* and getStormglassWaves (part_001).                                       *)

Variants == {"getStormglassCached", "getCachedWaves", "getStormglassWaves"}

\* 4 * 60 * 60 * 1000 ms and 12 * 60 * 60 * 1000 ms
MaxAge(v) == IF v = "getStormglassWaves" THEN 12 * 60 * Minute ELSE 4 * 60 * Minute

\* The age test written with <= instead of <.
IsFreshInclusive(age, maxAge) == age <= maxAge

\* `age < 4 * 60 * 60 * 1000`, `ageMs < 12 * 60 * 60 * 1000`
IsFresh(age, maxAge) == age < maxAge

NoCacheFile ==
    [exists |-> FALSE, timestamp |-> NoTimestamp,
     payload |-> [waves |-> NullWave, hours |-> <<>>]]

\* What the getter returns from a cache payload.
FromPayload(v, payload) ==
    IF v = "getStormglassWaves" THEN getClosestWave(payload.hours) ELSE payload.waves

\* What the getter fetches and stores, given the upstream's response.
FetchPayload(v, resp) ==
    IF v = "getStormglassCached"
        THEN [waves |-> fetchStormglassFirst(resp), hours |-> <<>>]
    ELSE IF v = "getCachedWaves"
        THEN [waves |-> fetchStormglassClosest(resp), hours |-> <<>>]
    ELSE [waves |-> NullWave, hours |-> fetchStormglassHours(resp)]

\* The getter up to its first await: the cache is read and, if it exists and
\* is young enough, its content is returned; otherwise the upstream is asked.
FileCall ==
    /\ fpc = "idle"
    /\ IF cacheFile.exists /\ IsFresh(now - cacheFile.timestamp, MaxAge(variant))
         THEN /\ fret' = FromPayload(variant, cacheFile.payload)
              /\ fsource' = "cache"
              /\ fpc' = "returned"
              /\ UNCHANGED fFetches
         ELSE /\ fpc' = "fetching"
              /\ fFetches' = fFetches + 1
              /\ UNCHANGED <<fret, fsource>>
    /\ UNCHANGED <<uiVars, now, boardVars, pol, sel, variant, cacheFile, gitVars>>

\* The upstream answers (or fails): the result is written with
\* timestamp: Date.now() and returned.
FileFetchDone(resp) ==
    /\ fpc = "fetching"
    /\ LET payload == FetchPayload(variant, resp)
       IN /\ cacheFile' = [exists |-> TRUE, timestamp |-> now, payload |-> payload]
          /\ fret' = FromPayload(variant, payload)
    /\ fsource' = "upstream"
    /\ fpc' = "returned"
    /\ UNCHANGED <<uiVars, now, boardVars, pol, sel, variant, fFetches, gitVars>>

\* The handler sends its response; the next request may come.
FileRespond ==
    /\ fpc = "returned"
    /\ fpc' = "idle"
    /\ UNCHANGED <<uiVars, now, boardVars, pol, sel, variant, cacheFile, fret, fsource, fFetches, gitVars>>

MaxFileHours == 13
FileInstants == {h * Hour + m : h \in 0..MaxFileHours, m \in {0, 1 * Minute, 59 * Minute}}

\* Time passes.
FileTick(t) ==
    /\ t > now
    /\ now' = t
    /\ UNCHANGED <<uiVars, boardVars, pol, sel, fileVars, gitVars>>

-----------------------------------------------------------------------------
(* weather.js: the forecast cache over the GitHub contents store.          *)

Passes == {1, 2}

\* The revision token of a blob that does not exist (sha = null).
NoSha == 0

NoBlob == [exists |-> FALSE, sha |-> NoSha, parses |-> FALSE, entry |-> NoForecast]

\* A blob whose content is not JSON (JSON.parse throws, stored stays null).
GarbageBlob == [exists |-> TRUE, sha |-> 1, parses |-> FALSE, entry |-> NoForecast]

NoFile == [found |-> FALSE, sha |-> NoSha, parses |-> FALSE, entry |-> NoForecast]

NoOutcome == [pass |-> 0, kind |-> "none", why |-> "", entry |-> NoForecast, hadStored |-> FALSE]

\* The call of pass p returns entry / throws, having read f from the store.
Returned(p, f, entry) ==
    [pass |-> p, kind |-> "entry", why |-> "", entry |-> entry,
     hadStored |-> f.found /\ f.parses]
Thrown(p, f, why) ==
    [pass |-> p, kind |-> "error", why |-> why, entry |-> NoForecast,
     hadStored |-> f.found /\ f.parses]

\* githubGet(path): null when the environment is not set or the blob is
\* absent (404), else { sha, content }.
githubGet ==
    IF ~configured \/ ~store.exists THEN NoFile
    ELSE [found |-> TRUE, sha |-> store.sha, parses |-> store.parses, entry |-> store.entry]

\* The store's answer to PUT contents with the given sha: an existing blob is
\* replaced only under its current sha, a new one created only without a sha.
PutAccepted(sha) ==
    IF store.exists THEN sha = store.sha ELSE sha = NoSha

\* The sha of the blob as it is at the time of the write, not as it was read.
ShaAtWrite(f) == store.sha

\* `file?.sha || null`, the third argument of githubWrite
ShaForWrite(f) == IF f.found THEN f.sha ELSE NoSha

\* A magnitude that is a JSON string, against a missing one (Null) and a
\* number of centimetres (>= 0); `typeof m === "number"`.
Text == -7
TypeofNumber(m) == m # Null /\ m # Text

\* The conversion written as a filter: hours without a number are left out.
RECURSIVE mapHoursDropping(_)
mapHoursDropping(hours) ==
    IF Len(hours) = 0 THEN <<>>
    ELSE (IF TypeofNumber(hours[1].sg)
            THEN <<[time |-> hours[1].time, waveFt |-> FtTenths(hours[1].sg)]>>
            ELSE <<>>)
         \o mapHoursDropping(Tail(hours))

\* json.hours.map(h => ({ time: h.time, waveFt: ... })) of fetchStormglassFresh
RECURSIVE mapHours(_)
mapHours(hours) ==
    IF Len(hours) = 0 THEN <<>>
    ELSE <<[time |-> hours[1].time,
            waveFt |-> IF TypeofNumber(hours[1].sg) THEN FtTenths(hours[1].sg) ELSE Null]>>
         \o mapHours(Tail(hours))

\* fetchStormglassFresh(), given the upstream's response; it throws on a
\* failed response and on a body without hours.
FreshThrows(resp) == ~resp.ok \/ ~resp.hasHours
FreshEntry(resp) == [timestamp |-> now, waves |-> mapHours(resp.hours), missing |-> FALSE]

\* A test that skips the refetch in the afternoon (the noon rule forgotten
\* for entries that are themselves from before noon).
MustFetchNoonOnly(f) ==
    \/ ~f.found \/ ~f.parses
    \/ f.entry.timestamp = NoTimestamp
    \/ getHours(now) >= 12

\* `!stored || shouldUpdateStormglass(stored.timestamp)`
MustFetch(f) ==
    \/ ~f.found \/ ~f.parses
    \/ shouldUpdateStormglass(f.entry.timestamp)

\* fetchStormglassFresh throws inside getStormglassForecast, which has no
\* try around it: the call throws.
OnFetchFailure(p, f) == Thrown(p, f, "upstream")

MaxFetches == 2

\* The noon or midnight that precedes an instant.
HalfDay(t) == t \div (12 * Hour)

\* getStormglassForecast up to its second await: githubGet answers, the
\* content is parsed and either returned or the upstream is asked.
GetStored(p) ==
    /\ pc[p] = "idle"
    /\ fetches < MaxFetches
    /\ LET f == githubGet IN
       IF MustFetch(f)
         THEN /\ pc' = [pc EXCEPT ![p] = "fetch"]
              /\ file' = [file EXCEPT ![p] = f]
              /\ seen' = [seen EXCEPT ![p] = version]
              /\ fetches' = fetches + 1
              /\ UNCHANGED last
         ELSE /\ last' = Returned(p, f, f.entry)
              /\ UNCHANGED <<pc, file, seen, fetches>>
    /\ UNCHANGED <<uiVars, now, boardVars, pol, sel, fileVars, configured, store, fresh, version, okFetches>>

\* githubGet throws: a status that is neither ok nor 404, or no answer.
GetFails(p) ==
    /\ pc[p] = "idle"
    /\ configured
    /\ last' = Thrown(p, NoFile, "get")
    /\ UNCHANGED <<uiVars, now, boardVars, pol, sel, fileVars, configured, store, pc, file, fresh, version,
                   seen, fetches, okFetches>>

\* The end of a call: the locals of the pass are gone.
EndCall(p) ==
    /\ pc' = [pc EXCEPT ![p] = "idle"]
    /\ file' = [file EXCEPT ![p] = NoFile]
    /\ fresh' = [fresh EXCEPT ![p] = NoForecast]
    /\ seen' = [seen EXCEPT ![p] = 0]

\* The upstream answers. A failure is thrown through getStormglassForecast;
\* otherwise githubWrite is called, which returns at once when the
\* environment is not set.
FetchDone(p, resp) ==
    /\ pc[p] = "fetch"
    /\ IF FreshThrows(resp)
         THEN /\ last' = OnFetchFailure(p, file[p])
              /\ EndCall(p)
              /\ UNCHANGED okFetches
         ELSE /\ okFetches' = okFetches + 1
              /\ IF configured
                   THEN /\ pc' = [pc EXCEPT ![p] = "write"]
                        /\ fresh' = [fresh EXCEPT ![p] = FreshEntry(resp)]
                        /\ UNCHANGED <<last, file, seen>>
                   ELSE /\ last' = Returned(p, file[p], FreshEntry(resp))
                        /\ EndCall(p)
    /\ UNCHANGED <<uiVars, now, boardVars, pol, sel, fileVars, configured, store, version, fetches>>

\* The store answers the PUT of githubWrite: the blob is replaced and fresh is
\* returned, or the PUT is rejected and githubWrite throws.
WriteDone(p) ==
    /\ pc[p] = "write"
    /\ IF PutAccepted(ShaForWrite(file[p]))
         THEN /\ store' = [exists |-> TRUE, sha |-> store.sha + 1, parses |-> TRUE,
                           entry |-> fresh[p]]
              /\ version' = version + 1
              /\ last' = Returned(p, file[p], fresh[p])
         ELSE /\ last' = Thrown(p, file[p], "conflict")
              /\ UNCHANGED <<store, version>>
    /\ EndCall(p)
    /\ UNCHANGED <<uiVars, now, boardVars, pol, sel, fileVars, configured, fetches, okFetches>>

\* The PUT gets no answer or another failure status: githubWrite throws.
WriteFails(p) ==
    /\ pc[p] = "write"
    /\ last' = Thrown(p, file[p], "write")
    /\ EndCall(p)
    /\ UNCHANGED <<uiVars, now, boardVars, pol, sel, fileVars, configured, store, version, fetches, okFetches>>

MaxGitDay == 1
GitTimes == {11 * Hour, 11 * Hour + 30 * Minute, 12 * Hour + 30 * Minute}
GitInstants == {d * Day + m : d \in 0..MaxGitDay, m \in GitTimes}

\* Time passes; a midnight or a noon may be crossed.
Tick(t) ==
    /\ t > now
    /\ now' = t
    /\ UNCHANGED <<uiVars, boardVars, pol, sel, fileVars, gitVars>>

\* Time passes within one half of a day: no midnight and no noon is crossed.
TickInWindow(t) ==
    /\ HalfDay(t) = HalfDay(now)
    /\ Tick(t)

-----------------------------------------------------------------------------
(* The buoy adapters: fetchBuoy of weather.js, of part_000 and the two of  *)
(* part_001.  A report is a sequence of non-blank lines; a line is         *)
(* [hash: it starts with '#', tokens: its whitespace-separated tokens      *)
(* without the leading '#'].  Numbers are held in tenths.                  *)

\* parseFloat on the tokens that occur in the reports; NaN for every other token.
Numerals ==
    [t \in {"180", "90", "5.1", "3.0", "6.2", "4.0", "22.3", "10.0", "24.1", "12.0",
            "0.0", "2025", "11", "01", "10", "00", "1015.0"} |->
        CASE t = "180" -> 1800 [] t = "90" -> 900
          [] t = "5.1" -> 51 [] t = "3.0" -> 30
          [] t = "6.2" -> 62 [] t = "4.0" -> 40
          [] t = "22.3" -> 223 [] t = "10.0" -> 100
          [] t = "24.1" -> 241 [] t = "12.0" -> 120
          [] t = "0.0" -> 0
          [] t = "2025" -> 20250 [] t = "11" -> 110 [] t = "01" -> 10
          [] t = "10" -> 100 [] t = "00" -> 0
          [] t = "1015.0" -> 10150]

parseFloat(x) == IF x \in DOMAIN Numerals THEN Numerals[x] ELSE NaN

\* r[i] / c[i] of a token list, at the 1-based position k: "" stands for undefined.
Token(r, k) == IF k >= 1 /\ k <= Len(r) THEN r[k] ELSE ""

\* weather.js parseNum(x): null for undefined, "--" and tokens that are not numbers
parseNum(x) ==
    IF x = "" \/ x = "--" THEN Null
    ELSE IF parseFloat(x) = NaN THEN Null ELSE parseFloat(x)

\* header.indexOf(name), as a 1-based position; 0 stands for -1.
indexOf(header, name) ==
    IF \E i \in 1..Len(header) : header[i] = name
      THEN CHOOSE i \in 1..Len(header) :
               header[i] = name /\ \A j \in 1..(i - 1) : header[j] # name
      ELSE 0

\* cToF / CtoF and mpsToKts followed by Math.round(x * 10) / 10 (round,
\* oneDec): tenths of a degree Celsius to tenths of a degree Fahrenheit,
\* tenths of m/s to tenths of a knot.
cToF(c) == (c * 18 + 3200 + 5) \div 10
mpsToKts(v) == (v * 194384 + 50000) \div 100000

dirs == <<"N", "NNE", "NE", "ENE", "E", "ESE", "SE", "SSE",
          "S", "SSW", "SW", "WSW", "W", "WNW", "NW", "NNW">>

BuoyImpls == {"weather.js", "part_000", "part_001:156", "part_001:458", "part_002"}

\* What degToCardinal returns for null: null in part_000 (held as the string
\* "null"), the placeholder "--" elsewhere.
NoCardinal(impl) == IF impl = "part_000" THEN "null" ELSE "--"

\* The sectors taken to be 45 degrees wide, as on an eight-point rose.
degToCardinalEightPoint(impl, d) ==
    IF d = Null THEN NoCardinal(impl)
    ELSE dirs[((((d % 3600) + 225) \div 450) % 16) + 1]

\* degToCardinal(d): dirs[Math.floor((d % 360) / 22.5 + 0.5) % 16], d in tenths
degToCardinal(impl, d) ==
    IF d = Null THEN NoCardinal(impl)
    ELSE dirs[((((d % 3600) * 2 + 225) \div 450) % 16) + 1]

\* The record a buoy adapter returns, from the five raw readings.
BuoyRecord(impl, airC, waterC, wspd, gust, wdir) ==
    [airF |-> IF airC # Null THEN cToF(airC) ELSE Null,
     waterF |-> IF waterC # Null THEN cToF(waterC) ELSE Null,
     windKts |-> IF wspd # Null THEN mpsToKts(wspd) ELSE Null,
     gustKts |-> IF gust # Null THEN mpsToKts(gust) ELSE Null,
     windDirCardinal |-> degToCardinal(impl, wdir)]

\* What a call of fetchBuoy ends with.
BuoyReturns(rec) == [kind |-> "record", rec |-> rec]
BuoyThrows == [kind |-> "throws", rec |-> BuoyRecord("weather.js", Null, Null, Null, Null, Null)]

\* The lines of a report that do not start with '#'.
DataLines(lines) == SelectSeq(lines, LAMBDA l : ~l.hash)

\* weather.js: the loop over dataRows for the quantity in column k,
\* `if (x == null && idx !== -1) x = parseNum(r[idx])`, from row i on.
RECURSIVE firstParsed(_, _, _)
firstParsed(dataRows, i, k) ==
    IF k = 0 \/ i > Len(dataRows) THEN Null
    ELSE LET x == parseNum(Token(dataRows[i].tokens, k))
         IN IF x # Null THEN x ELSE firstParsed(dataRows, i + 1, k)

\* weather.js fetchBuoy(id), given the upstream's response: the lines that
\* start with '#' are dropped, then the first line left is taken as the header.
fetchBuoyWeather(resp) ==
    IF ~resp.arrives \/ ~resp.ok THEN BuoyThrows
    ELSE LET rows == DataLines(resp.lines) IN
         IF Len(rows) = 0 THEN BuoyThrows
         ELSE LET header == rows[1].tokens
                  dataRows == Tail(rows)
                  col(n) == indexOf(header, n)
              IN BuoyReturns(BuoyRecord("weather.js",
                     firstParsed(dataRows, 1, col("ATMP")),
                     firstParsed(dataRows, 1, col("WTMP")),
                     firstParsed(dataRows, 1, col("WSPD")),
                     firstParsed(dataRows, 1, col("GST")),
                     firstParsed(dataRows, 1, col("WDIR"))))

\* get = i => (i >= 0 && i < c.length ? parseFloat(c[i]) : null)
get(c, k) == IF k >= 1 /\ k <= Len(c) THEN parseFloat(c[k]) ELSE Null

\* The scan that stops at the first row whatever its reading is.
newestFirstRowOnly(rows, i, k) ==
    IF i > Len(rows) THEN Null
    ELSE LET v == get(rows[i].tokens, k)
         IN IF v # Null /\ v # NaN THEN v ELSE Null

\* newest(fn) of part_000 and part_001: the first row, from row i on, whose
\* reading in column k is neither null nor NaN.
RECURSIVE newest(_, _, _)
newest(rows, i, k) ==
    IF i > Len(rows) THEN Null
    ELSE LET v == get(rows[i].tokens, k)
         IN IF v # Null /\ v # NaN THEN v ELSE newest(rows, i + 1, k)

\* lines.find(l => l.startsWith("#") && l.includes("WDIR")), as the list of
\* the lines that qualify.
HeaderLines(lines) ==
    SelectSeq(lines, LAMBDA l : l.hash /\ \E i \in 1..Len(l.tokens) : l.tokens[i] = "WDIR")

\* fetchBuoy(id) of part_000 (lines 53-107) and of part_001 (lines 458-513),
\* given the upstream's response; headerLine.replace throws when no header
\* line is found.
fetchBuoyNewest(impl, resp) ==
    IF ~resp.arrives THEN BuoyThrows
    ELSE IF Len(HeaderLines(resp.lines)) = 0 THEN BuoyThrows
    ELSE LET header == HeaderLines(resp.lines)[1].tokens
             rows == DataLines(resp.lines)
             col(n) == indexOf(header, n)
         IN BuoyReturns(BuoyRecord(impl,
                newest(rows, 1, col("ATMP")),
                newest(rows, 1, col("WTMP")),
                newest(rows, 1, col("WSPD")),
                newest(rows, 1, col("GST")),
                newest(rows, 1, col("WDIR"))))

\* fallback(fn) of part_001's first fetchBuoy: the first row whose reading at
\* the fixed position k is not NaN (parseFloat(undefined) is NaN).
RECURSIVE fallback(_, _, _)
fallback(rows, i, k) ==
    IF i > Len(rows) THEN Null
    ELSE LET v == parseFloat(Token(rows[i].tokens, k))
         IN IF v # NaN THEN v ELSE fallback(rows, i + 1, k)

\* fetchBuoy(id) of part_001 (lines 156-205): fixed positions c[5], c[6],
\* c[7], c[13], c[14]; it throws on a failed response and on no data line.
fetchBuoyFixed(resp) ==
    IF ~resp.arrives \/ ~resp.ok THEN BuoyThrows
    ELSE LET rows == DataLines(resp.lines) IN
         IF Len(rows) = 0 THEN BuoyThrows
         ELSE BuoyReturns(BuoyRecord("part_001:156",
                  fallback(rows, 1, 14), fallback(rows, 1, 15),
                  fallback(rows, 1, 7), fallback(rows, 1, 8), fallback(rows, 1, 6)))

\* parseNum of part_002: `isNaN(n) ? null : n` with n = parseFloat(x)
parseNum002(x) == IF parseFloat(x) = NaN THEN Null ELSE parseFloat(x)

\* part_002: the loop over the lines for the quantity in column k,
\* `if (x == null && idx > -1) x = parseNum(r[idx])`, from row i on.
RECURSIVE firstParsed002(_, _, _)
firstParsed002(rows, i, k) ==
    IF k = 0 \/ i > Len(rows) THEN Null
    ELSE LET x == parseNum002(Token(rows[i].tokens, k))
         IN IF x # Null THEN x ELSE firstParsed002(rows, i + 1, k)

\* lines.find(l => l.startsWith("#")), as the list of the lines that qualify
HashLines(lines) == SelectSeq(lines, LAMBDA l : l.hash)

\* fetchBuoy(id) of part_002 (lines 122-166): the header is the first line
\* that starts with '#'.
fetchBuoy002(resp) ==
    IF ~resp.arrives \/ ~resp.ok THEN BuoyThrows
    ELSE IF Len(HashLines(resp.lines)) = 0 THEN BuoyThrows
    ELSE LET header == HashLines(resp.lines)[1].tokens
             rows == DataLines(resp.lines)
             col(n) == indexOf(header, n)
         IN BuoyReturns(BuoyRecord("part_002",
                firstParsed002(rows, 1, col("ATMP")),
                firstParsed002(rows, 1, col("WTMP")),
                firstParsed002(rows, 1, col("WSPD")),
                firstParsed002(rows, 1, col("GST")),
                firstParsed002(rows, 1, col("WDIR"))))

fetchBuoy(impl, resp) ==
    IF impl = "weather.js" THEN fetchBuoyWeather(resp)
    ELSE IF impl = "part_002" THEN fetchBuoy002(resp)
    ELSE IF impl = "part_001:156" THEN fetchBuoyFixed(resp)
    ELSE fetchBuoyNewest(impl, resp)

\* The record of safeFetchBuoy's and safeBuoy's catch.
DefaultBuoy ==
    [airF |-> Null, waterF |-> Null, windKts |-> Null, gustKts |-> Null,
     windDirCardinal |-> "--"]

\* safeFetchBuoy(id) (weather.js) and safeBuoy(id) (part_001), given what
\* fetchBuoy ended with.
safeFetchBuoy(out) == IF out.kind = "throws" THEN DefaultBuoy ELSE out.rec

\* The reports the adapters are applied to.  Column layouts: the five columns
\* after the date, the same without WTMP, and the upstream's own layout.
Layouts ==
    {<<"YY", "MM", "DD", "hh", "mm", "WDIR", "WSPD", "GST", "ATMP", "WTMP">>,
     <<"YY", "MM", "DD", "hh", "mm", "WDIR", "WSPD", "GST", "ATMP">>,
     <<"YY", "MM", "DD", "hh", "mm", "WDIR", "WSPD", "GST", "WVHT", "DPD", "APD",
       "MWD", "PRES", "ATMP", "WTMP">>}

Quantities == {"WDIR", "WSPD", "GST", "ATMP", "WTMP"}

\* The tokens of one data row in the five columns; "MM" is the upstream's
\* token for a missing value.
Reading(wdir, wspd, gst, atmp, wtmp) ==
    [q \in Quantities |->
        CASE q = "WDIR" -> wdir [] q = "WSPD" -> wspd [] q = "GST" -> gst
          [] q = "ATMP" -> atmp [] q = "WTMP" -> wtmp]

Readings ==
    {Reading("180", "5.1", "6.2", "22.3", "24.1"),
     Reading("90", "3.0", "4.0", "10.0", "12.0"),
     Reading("MM", "MM", "MM", "MM", "MM"),
     Reading("MM", "MM", "MM", "22.3", "24.1"),
     Reading("180", "5.1", "6.2", "MM", "MM"),
     Reading("0.0", "0.0", "0.0", "0.0", "0.0")}

\* The token of a data row in a column that is none of the five.
Filler(name) ==
    CASE name = "YY" -> "2025" [] name = "MM" -> "11" [] name = "DD" -> "01"
      [] name = "hh" -> "10" [] name = "mm" -> "00" [] name = "PRES" -> "1015.0"
      [] OTHER -> "MM"

\* A data row: full, or cut off after the WDIR column.
RowKinds == [rd : Readings, short : {FALSE}]
            \cup {[rd |-> Reading("90", "3.0", "4.0", "10.0", "12.0"), short |-> TRUE]}

DataLine(layout, row) ==
    LET full == [i \in 1..Len(layout) |->
                    IF layout[i] \in Quantities THEN row.rd[layout[i]]
                    ELSE Filler(layout[i])]
    IN [hash |-> FALSE, tokens |-> IF row.short THEN SubSeq(full, 1, 6) ELSE full]

RECURSIVE DataLinesOf(_, _)
DataLinesOf(layout, rows) ==
    IF Len(rows) = 0 THEN <<>>
    ELSE <<DataLine(layout, rows[1])>> \o DataLinesOf(layout, Tail(rows))

\* The header line: with the '#' marker, without it, or missing.
HeaderKinds == {"hash", "plain", "none"}

Report(layout, hdr, rows) ==
    (IF hdr = "none" THEN <<>> ELSE <<[hash |-> hdr = "hash", tokens |-> layout]>>)
        \o DataLinesOf(layout, rows)

MaxRows == 2

Reports ==
    {Report(layout, hdr, rows) :
        layout \in Layouts, hdr \in HeaderKinds, rows \in SeqsUpTo(RowKinds, MaxRows)}

\* What fetch(url) gives: no answer (fetch rejects), an error status with an
\* error page, or a report.
NoAnswer == [arrives |-> FALSE, ok |-> FALSE, lines |-> <<>>]
ErrorPage == [arrives |-> TRUE, ok |-> FALSE,
              lines |-> <<[hash |-> FALSE, tokens |-> <<"Not", "Found">>]>>]

BuoyResponses ==
    {NoAnswer, ErrorPage} \cup {[arrives |-> TRUE, ok |-> TRUE, lines |-> r] : r \in Reports}

BuoyIdle ==
    [impl |-> "weather.js", resp |-> NoAnswer, out |-> BuoyThrows,
     safe |-> DefaultBuoy, done |-> TRUE]

\* One call of fetchBuoy and of the safe wrapper around it.
FetchBuoy ==
    /\ ~buoy.done
    /\ LET out == fetchBuoy(buoy.impl, buoy.resp)
       IN buoy' = [buoy EXCEPT !.out = out, !.safe = safeFetchBuoy(out), !.done = TRUE]
    /\ UNCHANGED <<uiVars, now, clo, agg, pol, sel, fileVars, gitVars>>

-----------------------------------------------------------------------------
(* weather.js: what the handler builds from the forecast and from the      *)
(* month of tides and sun times.                                           *)

\* A JSON null in the place of a sample of a persisted forecast.
NullElement == [time |-> Null, waveFt |-> Null]

\* pickCurrentWave throws a TypeError: `w.waveFt` is read from an element of
\* forecast.waves that is null.
pickCurrentWaveThrows(forecast) ==
    /\ ~forecast.missing
    /\ \E i \in 1..Len(forecast.waves) : forecast.waves[i] = NullElement

\* A tide of a day record is [time, ft]: time the minutes of "HH:MM" since
\* 00:00 (NoTime when the entry has no time string), ft in tenths of a foot.
NoTime == -6

\* A day without a record, and no tide chosen.
NoDay == [high |-> <<>>, low |-> <<>>, sunrise |-> Null, sunset |-> Null, absent |-> TRUE]
NoTide == [t |-> Null, v |-> Null]

\* The month data: null (isNull), or { year, month, days } with days a map
\* from the day of the month to its record.
NoMonth == [isNull |-> TRUE, days |-> <<>>]

\* chooseTideForNow(dayRecord, kind) for list = dayRecord[kind]:
\* `hour < 12 ? list[0] : (list[1] ?? list[0])`; <<>> stands for null.
chooseTideForNow(list) ==
    IF Len(list) = 0 THEN <<>>
    ELSE IF getHours(now) < 12 THEN <<list[1]>>
    ELSE IF Len(list) >= 2 THEN <<list[2]>> ELSE <<list[1]>>

\* rec = monthData?.days?.[day], day = now.getDate()
TodayRecord(monthData) ==
    IF monthData.isNull \/ getDate(now) \notin DOMAIN monthData.days THEN NoDay
    ELSE monthData.days[getDate(now)]

\* mkISO(t) throws: t.time is not a string.
mkISOThrows(choice) == Len(choice) = 1 /\ choice[1].time = NoTime

\* buildTodayTidesAndSun throws on a day record whose chosen tide has no time.
buildTodayTidesAndSunThrows(monthData) ==
    LET rec == TodayRecord(monthData) IN
    \/ mkISOThrows(chooseTideForNow(rec.high))
    \/ mkISOThrows(chooseTideForNow(rec.low))

\* { t: mkISO(tide), v: tide.ft }, the instant being today at tide.time
TideOf(choice) ==
    IF Len(choice) = 0 THEN NoTide
    ELSE [t |-> CalendarDay(now) * Day + choice[1].time, v |-> choice[1].ft]

\* buildTodayTidesAndSun(monthData), when it does not throw
buildTodayTidesAndSun(monthData) ==
    LET rec == TodayRecord(monthData) IN
    [tides |-> [high |-> TideOf(chooseTideForNow(rec.high)),
                low |-> TideOf(chooseTideForNow(rec.low))],
     sun |-> [sunrise |-> rec.sunrise, sunset |-> rec.sunset]]

-----------------------------------------------------------------------------
(* The handlers.  One request: the handler is invoked, its adapters settle *)
(* and it responds.  agg.st gives each adapter's state: "unstarted",       *)
(* "pending", "ok" (it returned its data), "default" (it failed and its    *)
(* wrapper returned the default) or "rejected" (it threw to the handler).  *)

Handlers == {"weather.js", "part_002", "part_000", "part_001:115"}

\* The adapters of a handler, in the order of their calls.
Adapters(h) ==
    CASE h = "weather.js" -> <<"gulf", "bay", "waves", "month">>
      [] h = "part_002" -> <<"gulf", "bay", "waves", "sun">>
      [] h = "part_000" -> <<"gulf", "bay", "waves">>
      [] h = "part_001:115" -> <<"waves", "gulf", "bay", "tides">>

AdapterNames == {"gulf", "bay", "waves", "month", "sun", "tides"}

\* `await Promise.all([...])` against one `await` per adapter call.
Concurrent(h) == h \in {"weather.js", "part_002"}

\* The month source of weather.js: the position of getUsharborsMonth ("get":
\* awaiting githubGet, "text": awaiting the upstream, "put": awaiting
\* githubWrite), what it ended with, and the month it holds.
\* The call also keeps the instant it began at and the year and month it
\* read from the clock then (fname), what githubGet gave it ("content" that
\* parses, "garbage", "null", or it "threw"), whether it asked the upstream,
\* and the name it wrote a blob under.
NoName == [year |-> Null, month |-> Null]
MonthIdle ==
    [pc |-> "off", kind |-> "none", data |-> NoMonth, began |-> NoTimestamp,
     fname |-> NoName, got |-> "none", asked |-> FALSE, wrote |-> NoName]

\* The month taken without its + 1.
fnameZeroBased(t) == [year |-> getFullYear(t), month |-> getMonth(t)]

\* `usharbors-${year}-${String(month).padStart(2,"0")}.json` of new Date()
fname(t) == [year |-> getFullYear(t), month |-> getMonth(t) + 1]

\* The blob usharbors-YYYY-MM.json of the current month.
NoMonthBlob == [exists |-> FALSE, parses |-> FALSE, data |-> NoMonth]

\* { sunrise: null, sunset: null }
NoSun == [sunrise |-> Null, sunset |-> Null]

NoResponse == [kind |-> "none", status |-> 0, body |-> <<>>]

AggIdle ==
    [handler |-> "off", method |-> "GET", pc |-> "off",
     st |-> [a \in AdapterNames |-> "unstarted"],
     gulf |-> DefaultBuoy, bay |-> DefaultBuoy, waves |-> NullWave,
     sun |-> NoSun, tides |-> [low |-> NoTide, high |-> NoTide],
     month |-> MonthIdle, blob |-> NoMonthBlob,
     resp |-> NoResponse]

\* The request is running in handler h and has not responded.
Awaiting(h) == agg.handler = h /\ agg.pc = "awaiting"

\* The fetchBuoy a handler calls, and whether it calls it through a safe wrapper.
BuoyImplOf(h) == IF h = "part_001:115" THEN "part_001:156" ELSE h
SafeBuoys(h) == h \in {"weather.js", "part_002"}

\* The buoy upstream's answers to a request: none, the upstream's report
\* (the header marked with '#') and the same report with an unmarked header.
UpstreamLayout ==
    <<"YY", "MM", "DD", "hh", "mm", "WDIR", "WSPD", "GST", "WVHT", "DPD", "APD",
      "MWD", "PRES", "ATMP", "WTMP">>
OneRow == <<[rd |-> Reading("180", "5.1", "6.2", "22.3", "24.1"), short |-> FALSE]>>
AggBuoyResponses ==
    {NoAnswer,
     [arrives |-> TRUE, ok |-> TRUE, lines |-> Report(UpstreamLayout, "hash", OneRow)],
     [arrives |-> TRUE, ok |-> TRUE, lines |-> Report(UpstreamLayout, "plain", OneRow)]}

\* Months of tides and sun times: the record of day 1, with two high tides
\* and one low tide.
DayRecord ==
    [high |-> <<[time |-> 5 * Hour + 10 * Minute, ft |-> 12],
                [time |-> 17 * Hour + 30 * Minute, ft |-> 14]>>,
     low |-> <<[time |-> 11 * Hour, ft |-> 2]>>,
     sunrise |-> 6 * Hour + 50 * Minute, sunset |-> 17 * Hour + 45 * Minute,
     absent |-> FALSE]

\* A month with a record for day 1, a month with a record for day 2 only,
\* and a month whose record for day 1 has a tide without a time string.
GoodMonth == [isNull |-> FALSE, days |-> [d \in {1} |-> DayRecord]]
OtherDayMonth == [isNull |-> FALSE, days |-> [d \in {2} |-> DayRecord]]
MalformedMonth ==
    [isNull |-> FALSE,
     days |-> [d \in {1} |-> [DayRecord EXCEPT !.high = <<[time |-> NoTime, ft |-> 12]>>]]]

\* The month blob as a request may find it.
MonthBlobs ==
    {NoMonthBlob, [exists |-> TRUE, parses |-> FALSE, data |-> NoMonth]}
    \cup {[exists |-> TRUE, parses |-> TRUE, data |-> m] :
              m \in {GoodMonth, OtherDayMonth, MalformedMonth}}

\* fetchUsharborsText followed by parseUsharborsTextToMonth, given the
\* upstream's answer: the parser builds every day record itself, its tides
\* from tokens that match the time pattern.
TextResponses == {[ok |-> FALSE, month |-> NoMonth], [ok |-> TRUE, month |-> GoodMonth]}

\* The forecast blob as a request may find it: absent, not JSON, an entry of
\* 10:00 today, and an entry of 10:00 today whose waves hold a JSON null.
ForecastBlobs ==
    {NoBlob, GarbageBlob}
    \cup {[exists |-> TRUE, sha |-> 1, parses |-> TRUE,
           entry |-> [timestamp |-> 10 * Hour, waves |-> ws, missing |-> FALSE]] :
              ws \in {<<[time |-> 11 * Hour, waveFt |-> 33], [time |-> 14 * Hour, waveFt |-> 20]>>,
                      <<NullElement>>}}

\* part_002 fetchStormglass(), given the upstream's response: it throws on a
\* failed response and on a body without hours; else the hours are converted
\* and the nearest non-null one is picked, by the loop of pickCurrentWave.
fetchStormglass002Throws(resp) == ~resp.ok \/ ~resp.hasHours
fetchStormglass002(resp) ==
    [waveFt |-> LET best == pickLoop(mapHours(resp.hours), 1, NoSample, Infinity)
                IN IF best # NoSample THEN best.waveFt ELSE Null]

\* part_002 getSunToday(): the rows of usharbors-YYYY-MM.tsv, each
\* [day, sunrise, sunset]; what the GitHub GET answers.
SunRows ==
    {<<>>,
     <<[day |-> 1, sunrise |-> 6 * Hour + 50 * Minute, sunset |-> 17 * Hour + 45 * Minute],
       [day |-> 2, sunrise |-> 6 * Hour + 51 * Minute, sunset |-> 17 * Hour + 44 * Minute]>>}
SunResponses ==
    {[arrives |-> FALSE, ok |-> FALSE, rows |-> <<>>],
     [arrives |-> TRUE, ok |-> FALSE, rows |-> <<>>]}
    \cup {[arrives |-> TRUE, ok |-> TRUE, rows |-> r] : r \in SunRows}

\* parseSunTSV(tsv): the sun times of the first row whose day is today
RECURSIVE parseSunTSV(_, _)
parseSunTSV(rows, i) ==
    IF i > Len(rows) THEN NoSun
    ELSE IF rows[i].day = getDate(now)
        THEN [sunrise |-> rows[i].sunrise, sunset |-> rows[i].sunset]
    ELSE parseSunTSV(rows, i + 1)

\* getSunToday(), given the answer to githubGet's request: null content
\* (a failed status) gives the null sun times.
getSunToday(resp) == IF ~resp.ok THEN NoSun ELSE parseSunTSV(resp.rows, 1)

\* part_001 fetchTides(), given the upstream's answer: the first low and the
\* first high prediction; it throws when there is no answer or no predictions.
TideResponses ==
    {[arrives |-> FALSE, hasPredictions |-> FALSE, predictions |-> <<>>],
     [arrives |-> TRUE, hasPredictions |-> FALSE, predictions |-> <<>>],
     [arrives |-> TRUE, hasPredictions |-> TRUE,
      predictions |-> <<[type |-> "H", t |-> 5 * Hour + 10 * Minute, v |-> 12],
                        [type |-> "L", t |-> 11 * Hour, v |-> 2],
                        [type |-> "H", t |-> 17 * Hour + 30 * Minute, v |-> 14]>>],
     [arrives |-> TRUE, hasPredictions |-> TRUE,
      predictions |-> <<[type |-> "H", t |-> 5 * Hour + 10 * Minute, v |-> 12]>>]}

fetchTidesThrows(resp) == ~resp.arrives \/ ~resp.hasPredictions

\* j.predictions.find(p => p.type === type) || null
FindTide(predictions, type) ==
    LET found == SelectSeq(predictions, LAMBDA p : p.type = type)
    IN IF Len(found) = 0 THEN NoTide ELSE [t |-> found[1].t, v |-> found[1].v]

fetchTides(resp) ==
    [low |-> FindTide(resp.predictions, "L"), high |-> FindTide(resp.predictions, "H")]

\* part_001 computeSunriseSunset(lat, lon, date) for the station: the sun
\* times of the date, in minutes of the local day.
computeSunriseSunset(date) ==
    [sunrise |-> 6 * Hour + 50 * Minute + (getDate(date) % 2),
     sunset |-> 17 * Hour + 45 * Minute - (getDate(date) % 2)]


\* The body of a handler's catch: weather.js and part_002 send the whole
\* shape populated with nulls, part_000 and part_001 the error alone.
ErrorResponse(h) ==
    CASE h = "weather.js" ->
           [kind |-> "error", status |-> 200,
            body |-> [error |-> "String(err)", gulf |-> "null", bay |-> "null",
                      waves |-> [waveFt |-> Null],
                      tides |-> [low |-> NoTide, high |-> NoTide], sun |-> NoSun]]
      [] h = "part_002" ->
           [kind |-> "error", status |-> 200,
            body |-> [error |-> "String(err)", gulf |-> "null", bay |-> "null",
                      waves |-> [waveFt |-> Null], sun |-> NoSun,
                      tides |-> [high |-> NoTide, low |-> NoTide],
                      usharborsOutdated |-> TRUE]]
      [] OTHER ->
           [kind |-> "error", status |-> 500, body |-> [error |-> "String(err)"]]

\* The body of the successful return of part_002, part_000 and part_001.
SuccessResponse(g) ==
    CASE g.handler = "part_002" ->
           [kind |-> "success", status |-> 200,
            body |-> [gulf |-> g.gulf, bay |-> g.bay, waves |-> g.waves, sun |-> g.sun,
                      tides |-> [high |-> NoTide, low |-> NoTide],
                      usharborsOutdated |-> FALSE]]
      [] g.handler = "part_000" ->
           [kind |-> "success", status |-> 200,
            body |-> [gulf |-> g.gulf, bay |-> g.bay, waves |-> g.waves]]
      [] OTHER ->
           [kind |-> "success", status |-> 200,
            body |-> [gulf |-> g.gulf, bay |-> g.bay, waves |-> g.waves, sun |-> g.sun,
                      tides |-> g.tides]]

\* What weather.js's handler got from getStormglassForecast().catch(...) and
\* from getUsharborsMonth().catch(...).
sgForecast == IF last.kind = "entry" THEN last.entry ELSE NoForecast
monthData == IF agg.month.kind = "data" THEN agg.month.data ELSE NoMonth

\* The return of weather.js's handler once Promise.all has resolved: a throw
\* of pickCurrentWave or buildTodayTidesAndSun is caught by the handler's catch.
WeatherResponse ==
    IF pickCurrentWaveThrows(sgForecast) \/ buildTodayTidesAndSunThrows(monthData)
      THEN ErrorResponse("weather.js")
      ELSE [kind |-> "success", status |-> 200,
            body |-> [gulf |-> agg.gulf, bay |-> agg.bay,
                      waves |-> pickCurrentWave(sgForecast),
                      tides |-> buildTodayTidesAndSun(monthData).tides,
                      sun |-> buildTodayTidesAndSun(monthData).sun]]

\* The state of adapter a of the running request; the forecast call of
\* weather.js has ended when its outcome is recorded.
StatusOf(a) ==
    IF agg.handler = "weather.js" /\ a = "waves" /\ agg.st[a] = "pending"
      THEN IF last = NoOutcome THEN "pending"
           ELSE IF last.kind = "entry" THEN "ok" ELSE "default"
      ELSE agg.st[a]

AdaptersOf(h) == {Adapters(h)[i] : i \in 1..Len(Adapters(h))}

\* Promise.all: fulfilled when every promise is, rejected as soon as one is.
AllFulfilled == \A a \in AdaptersOf(agg.handler) : StatusOf(a) \in {"ok", "default"}
AnyRejected == \E a \in AdaptersOf(agg.handler) : StatusOf(a) = "rejected"

\* The adapter a sequential handler calls after adapter a ("none" after the last).
NextAdapter(h, a) ==
    LET i == CHOOSE k \in 1..Len(Adapters(h)) : Adapters(h)[k] = a
    IN IF i = Len(Adapters(h)) THEN "none" ELSE Adapters(h)[i + 1]

\* A sequential handler after adapter a returned: the next call is issued
\* (part_001 computes the sun times before it asks for the tides), or the
\* response is returned.
Advance(g, a) ==
    LET h == g.handler
        g1 == IF h = "part_001:115" /\ a = "bay"
                THEN [g EXCEPT !.sun = computeSunriseSunset(now)] ELSE g
    IN IF NextAdapter(h, a) = "none"
         THEN [g1 EXCEPT !.pc = "done", !.resp = SuccessResponse(g1)]
         ELSE [g1 EXCEPT !.st[NextAdapter(h, a)] = "pending"]

\* A sequential handler after an adapter threw: the catch returns.
Caught(g) == [g EXCEPT !.pc = "done", !.resp = ErrorResponse(g.handler)]

\* The handler is invoked. part_000 answers a preflight at once; otherwise
\* weather.js and part_002 issue all their adapter calls and await
\* Promise.all, the other handlers issue their first call and await it.
Invoke ==
    /\ agg.pc = "received"
    /\ LET h == agg.handler IN
       IF h = "part_000" /\ agg.method = "OPTIONS"
         THEN /\ agg' = [agg EXCEPT !.pc = "done",
                                    !.resp = [kind |-> "preflight", status |-> 204,
                                              body |-> <<>>]]
              /\ UNCHANGED <<pc, fpc>>
         ELSE /\ agg' = [agg EXCEPT
                           !.pc = "awaiting",
                           !.st = [a \in AdapterNames |->
                                     IF a \in AdaptersOf(h)
                                        /\ (Concurrent(h) \/ a = Adapters(h)[1])
                                       THEN "pending" ELSE "unstarted"],
                           !.month = IF h = "weather.js"
                                       THEN [MonthIdle EXCEPT !.pc = "get",
                                                              !.began = now,
                                                              !.fname = fname(now)]
                                       ELSE MonthIdle]
              /\ pc' = IF h = "weather.js" THEN [pc EXCEPT ![1] = "idle"] ELSE pc
              /\ fpc' = IF ~Concurrent(h) /\ Adapters(h)[1] = "waves" THEN "idle" ELSE fpc
    /\ UNCHANGED <<uiVars, now, clo, buoy, pol, sel, variant, cacheFile, fret, fsource, fFetches,
                   configured, store, file, fresh, last, version, seen, fetches, okFetches>>

\* The buoy upstream answers the request of adapter a (or the request
\* fails). Behind a safe wrapper a throw becomes the default record; in
\* part_000 and part_001 it reaches the handler's catch.
BuoySettles(a, resp) ==
    /\ agg.pc = "awaiting"
    /\ agg.st[a] = "pending"
    /\ LET h == agg.handler
           out == fetchBuoy(BuoyImplOf(h), resp)
       IN IF SafeBuoys(h)
            THEN /\ agg' = [agg EXCEPT ![a] = safeFetchBuoy(out),
                                       !.st[a] = IF out.kind = "throws" THEN "default"
                                                 ELSE "ok"]
                 /\ UNCHANGED fpc
            ELSE IF out.kind = "throws"
              THEN /\ agg' = Caught([agg EXCEPT !.st[a] = "rejected"])
                   /\ UNCHANGED fpc
              ELSE /\ agg' = Advance([agg EXCEPT ![a] = out.rec, !.st[a] = "ok"], a)
                   /\ fpc' = IF NextAdapter(h, a) = "waves" THEN "idle" ELSE fpc
    /\ UNCHANGED <<uiVars, now, clo, buoy, pol, sel, variant, cacheFile, fret, fsource, fFetches,
                   gitVars>>

\* weather.js: the steps of getStormglassForecast() for the request.
ForecastGet == Awaiting("weather.js") /\ last = NoOutcome /\ GetStored(1)
ForecastGetFails == Awaiting("weather.js") /\ last = NoOutcome /\ GetFails(1)
ForecastFetchDone(resp) == Awaiting("weather.js") /\ FetchDone(1, resp)
ForecastWriteDone == Awaiting("weather.js") /\ WriteDone(1)
ForecastWriteFails == Awaiting("weather.js") /\ WriteFails(1)

\* weather.js getUsharborsMonth(): githubGet answers; a blob that parses is
\* returned, otherwise the upstream page is asked for.
MonthGet ==
    /\ Awaiting("weather.js")
    /\ agg.month.pc = "get"
    /\ agg' = IF configured /\ agg.blob.exists /\ agg.blob.parses
                THEN [agg EXCEPT !.month.pc = "settled", !.month.kind = "data",
                                 !.month.data = agg.blob.data, !.month.got = "content",
                                 !.st.month = "ok"]
                ELSE [agg EXCEPT !.month.pc = "text", !.month.asked = TRUE,
                                 !.month.got = IF configured /\ agg.blob.exists
                                                 THEN "garbage" ELSE "null"]
    /\ UNCHANGED <<uiVars, now, clo, buoy, pol, sel, fileVars, gitVars>>

\* githubGet throws; the handler's .catch turns it into null.
MonthGetFails ==
    /\ Awaiting("weather.js")
    /\ agg.month.pc = "get"
    /\ configured
    /\ agg' = [agg EXCEPT !.month.pc = "settled", !.month.kind = "throws",
                          !.month.got = "threw", !.st.month = "default"]
    /\ UNCHANGED <<uiVars, now, clo, buoy, pol, sel, fileVars, gitVars>>

\* The upstream page arrives (or does not); the parsed month is written
\* through githubWrite, which returns at once when the environment is not set.
MonthText(resp) ==
    /\ Awaiting("weather.js")
    /\ agg.month.pc = "text"
    /\ agg' = IF ~resp.ok
                THEN [agg EXCEPT !.month.pc = "settled", !.month.kind = "throws",
                                 !.st.month = "default"]
              ELSE IF configured
                THEN [agg EXCEPT !.month.pc = "put", !.month.data = resp.month]
              ELSE [agg EXCEPT !.month.pc = "settled", !.month.kind = "data",
                               !.month.data = resp.month, !.st.month = "ok"]
    /\ UNCHANGED <<uiVars, now, clo, buoy, pol, sel, fileVars, gitVars>>

\* The store answers the PUT of the month: accepted, or githubWrite throws.
MonthPut(accepted) ==
    /\ Awaiting("weather.js")
    /\ agg.month.pc = "put"
    /\ agg' = IF accepted
                THEN [agg EXCEPT !.blob = [exists |-> TRUE, parses |-> TRUE,
                                           data |-> agg.month.data],
                                 !.month.pc = "settled", !.month.kind = "data",
                                 !.month.wrote = agg.month.fname,
                                 !.st.month = "ok"]
                ELSE [agg EXCEPT !.month.pc = "settled", !.month.kind = "throws",
                                 !.month.data = NoMonth, !.st.month = "default"]
    /\ UNCHANGED <<uiVars, now, clo, buoy, pol, sel, fileVars, gitVars>>

\* part_002: fetchStormglass() settles; it is passed to Promise.all unwrapped.
WavesSettles002(resp) ==
    /\ Awaiting("part_002")
    /\ agg.st.waves = "pending"
    /\ agg' = IF fetchStormglass002Throws(resp)
                THEN [agg EXCEPT !.st.waves = "rejected"]
                ELSE [agg EXCEPT !.waves = fetchStormglass002(resp), !.st.waves = "ok"]
    /\ UNCHANGED <<uiVars, now, clo, buoy, pol, sel, fileVars, gitVars>>

\* part_002: getSunToday() settles; githubGet returns null without a
\* request when the environment is not set, and its fetch may reject.
SunSettles(resp) ==
    /\ Awaiting("part_002")
    /\ agg.st.sun = "pending"
    /\ agg' = IF ~configured
                THEN [agg EXCEPT !.sun = NoSun, !.st.sun = "ok"]
              ELSE IF ~resp.arrives
                THEN [agg EXCEPT !.st.sun = "rejected"]
              ELSE [agg EXCEPT !.sun = getSunToday(resp), !.st.sun = "ok"]
    /\ UNCHANGED <<uiVars, now, clo, buoy, pol, sel, fileVars, gitVars>>

\* part_000 and part_001: the steps of the file-cached getter, and the
\* handler's continuation with what it returned.
WavesPending == agg.pc = "awaiting" /\ ~Concurrent(agg.handler) /\ agg.st.waves = "pending"
WavesCall == WavesPending /\ FileCall
WavesFetchDone(resp) == WavesPending /\ FileFetchDone(resp)
WavesReturned ==
    /\ WavesPending
    /\ fpc = "returned"
    /\ agg' = Advance([agg EXCEPT !.waves = fret, !.st.waves = "ok"], "waves")
    /\ fpc' = "off"
    /\ UNCHANGED <<uiVars, now, clo, buoy, pol, sel, variant, cacheFile, fret, fsource, fFetches,
                   gitVars>>

\* part_001: fetchTides() settles; a throw reaches the handler's catch.
TidesSettles(resp) ==
    /\ Awaiting("part_001:115")
    /\ agg.st.tides = "pending"
    /\ agg' = IF fetchTidesThrows(resp)
                THEN Caught([agg EXCEPT !.st.tides = "rejected"])
                ELSE Advance([agg EXCEPT !.tides = fetchTides(resp), !.st.tides = "ok"],
                             "tides")
    /\ UNCHANGED <<uiVars, now, clo, buoy, pol, sel, fileVars, gitVars>>

\* weather.js and part_002: Promise.all has settled and the handler returns
\* its response.
Respond ==
    /\ agg.pc = "awaiting"
    /\ Concurrent(agg.handler)
    /\ AllFulfilled \/ AnyRejected
    /\ agg' = [agg EXCEPT !.pc = "done",
                          !.resp = IF AnyRejected THEN ErrorResponse(agg.handler)
                                   ELSE IF agg.handler = "weather.js" THEN WeatherResponse
                                   ELSE SuccessResponse(agg)]
    /\ UNCHANGED <<uiVars, now, clo, buoy, pol, sel, fileVars, gitVars>>

-----------------------------------------------------------------------------
(* degToCardinal, fetchStormglassFresh and pickWaveForLocalTime on drawn   *)
(* arguments.                                                              *)

\* Bearings in tenths of a degree: every 2.5 degrees from 0 to 360, the two
\* tenths around 11.25, and null.
MaxBearing == 144
Bearings == {k * 25 : k \in 0..MaxBearing} \cup {112, 113, Null}

CardIdle == [impl |-> "weather.js", d |-> Null, result |-> "--", done |-> FALSE]

DegToCardinal ==
    /\ ~card.done
    /\ card' = [card EXCEPT !.result = degToCardinal(card.impl, card.d), !.done = TRUE]
    /\ UNCHANGED <<now, pol, sel, boardVars, conv, pwl, brd, fileVars, gitVars>>

\* Responses of the upstream to fetchStormglassFresh: hourly entries whose
\* waveHeight.sg is missing, a string or a number.
FreshHours == SeqsUpTo([time : {1 * Hour, 2 * Hour}, sg : {Null, Text, 0, 100}], MaxLen)
FreshResponses ==
    {[ok |-> FALSE, hasHours |-> FALSE, hours |-> <<>>],
     [ok |-> TRUE, hasHours |-> FALSE, hours |-> <<>>]}
    \cup {[ok |-> TRUE, hasHours |-> TRUE, hours |-> h] : h \in FreshHours}

ConvIdle ==
    [resp |-> [ok |-> FALSE, hasHours |-> FALSE, hours |-> <<>>], threw |-> FALSE,
     entry |-> NoForecast, done |-> FALSE]

FetchStormglassFresh ==
    /\ ~conv.done
    /\ conv' = [conv EXCEPT !.threw = FreshThrows(conv.resp),
                            !.entry = IF FreshThrows(conv.resp) THEN NoForecast
                                      ELSE FreshEntry(conv.resp),
                            !.done = TRUE]
    /\ UNCHANGED <<now, pol, sel, boardVars, card, pwl, brd, fileVars, gitVars>>

\* new Date(w.time).getUTCHours(), of an instant in minutes
getUTCHours(t) == IF t = InvalidTime THEN NaN ELSE (t \div Hour) % 24

\* localAsUTC.getUTCHours(): the hour of now.getTime() + localOffsetMin * 60000
targetHour(offset) == getUTCHours(now + offset)

\* The loop of pickWaveForLocalTime: `if (!w.waveFt) continue` skips null and
\* 0; the distance is taken between hours of the day.
RECURSIVE pickHourLoop(_, _, _, _, _)
pickHourLoop(waves, i, best, bestDiff, target) ==
    IF i > Len(waves) THEN best
    ELSE LET w == waves[i]
             diff == MathAbs(Minus(getUTCHours(w.time), target))
         IN IF w.waveFt = Null \/ w.waveFt = 0
              THEN pickHourLoop(waves, i + 1, best, bestDiff, target)
            ELSE IF LessThan(diff, bestDiff)
              THEN pickHourLoop(waves, i + 1, w, diff, target)
            ELSE pickHourLoop(waves, i + 1, best, bestDiff, target)

\* part_002 pickWaveForLocalTime(waves)
pickWaveForLocalTime(waves, offset) ==
    LET best == pickHourLoop(waves, 1, NoSample, Infinity, targetHour(offset))
    IN [waveFt |-> IF best # NoSample THEN best.waveFt ELSE Null]

\* Persisted sample lists over three days, and the offsets of UTC and of
\* US Central Standard Time.
PwlTimes == {11 * Hour, Day + 10 * Hour, Day + 13 * Hour, 2 * Day + 11 * Hour}
PwlWaves == SeqsUpTo([time : PwlTimes, waveFt : {Null, 0, 20, 35}], MaxLen)
Offsets == {0, 360}

PwlIdle == [waves |-> <<>>, offset |-> 0, result |-> [waveFt |-> Null], done |-> FALSE]

PickWaveForLocalTime ==
    /\ ~pwl.done
    /\ pwl' = [pwl EXCEPT !.result = pickWaveForLocalTime(pwl.waves, pwl.offset),
                          !.done = TRUE]
    /\ UNCHANGED <<now, pol, sel, boardVars, card, conv, brd, fileVars, gitVars>>

-----------------------------------------------------------------------------
(* tides_sun.js: the board controller.  updateBoard is called when the     *)
(* page loads and by every timeout of scheduleRefresh, which does not wait *)
(* for the call it started; a call is numbered by the order of the starts  *)
(* and its payload is named by that number (0: null).                      *)

MaxCalls == 3
MaxBoardTime == 3
Calls == 1..MaxCalls

NoText == [kind |-> "none", at |-> NoTimestamp]

BrdIdle ==
    [pc |-> "off", started |-> 0, out |-> [i \in Calls |-> "unstarted"],
     lastGoodData |-> 0, offlineSince |-> Null, offline |-> FALSE,
     text |-> NoText, shown |-> 0, ev |-> "none"]

\* setOfflineMode with its `if (!offlineSince)` left out.
setOfflineModeAlways(b) ==
    [b EXCEPT !.offlineSince = now,
              !.offline = TRUE,
              !.text = [kind |-> "OFFLINE", at |-> now],
              !.shown = IF b.lastGoodData # 0 THEN b.lastGoodData ELSE b.shown]

\* setOfflineMode(): offlineSince is set if it is not, the OFFLINE text shows
\* it, and lastGoodData, if any, is applied to the board.
setOfflineMode(b) ==
    LET since == IF b.offlineSince = Null THEN now ELSE b.offlineSince
    IN [b EXCEPT !.offlineSince = since,
                 !.offline = TRUE,
                 !.text = [kind |-> "OFFLINE", at |-> since],
                 !.shown = IF b.lastGoodData # 0 THEN b.lastGoodData ELSE b.shown]

\* The part of updateBoard after its await, when Promise.all resolved and
\* the payload of call i was prepared.
saveGoodData(b, i) ==
    [b EXCEPT !.lastGoodData = i,
              !.offlineSince = Null,
              !.offline = FALSE,
              !.text = [kind |-> "UPDATED", at |-> now],
              !.shown = i]

\* updateBoard() is called: at load, or by a timeout of scheduleRefresh,
\* whether or not earlier calls have settled. It issues its three requests
\* and awaits them.
StartUpdate ==
    /\ brd.pc = "on"
    /\ brd.started < MaxCalls
    /\ brd' = [brd EXCEPT !.started = brd.started + 1,
                          !.out[brd.started + 1] = "pending",
                          !.ev = "start"]
    /\ UNCHANGED <<now, pol, sel, boardVars, card, conv, pwl, fileVars, gitVars>>

\* Promise.all of call i resolves with usable data.
UpdateSucceeds(i) ==
    /\ brd.pc = "on"
    /\ brd.out[i] = "pending"
    /\ brd' = [saveGoodData(brd, i) EXCEPT !.out[i] = "ok", !.ev = "succeeded"]
    /\ UNCHANGED <<now, pol, sel, boardVars, card, conv, pwl, fileVars, gitVars>>

\* Promise.all of call i rejects, or the payload cannot be prepared from
\* what getBuoyData returned: the catch calls setOfflineMode.
UpdateFails(i) ==
    /\ brd.pc = "on"
    /\ brd.out[i] = "pending"
    /\ brd' = [setOfflineMode(brd) EXCEPT !.out[i] = "failed", !.ev = "failed"]
    /\ UNCHANGED <<now, pol, sel, boardVars, card, conv, pwl, fileVars, gitVars>>

\* The callback of setInterval(..., 10000)
TimestampTimer ==
    /\ brd.pc = "on"
    /\ brd' = [brd EXCEPT !.text = IF brd.offlineSince = Null
                                     THEN [kind |-> "UPDATED", at |-> now]
                                     ELSE brd.text,
                          !.ev = "timer"]
    /\ UNCHANGED <<now, pol, sel, boardVars, card, conv, pwl, fileVars, gitVars>>

\* A minute passes.
BoardTick ==
    /\ brd.pc = "on"
    /\ now < MaxBoardTime
    /\ now' = now + 1 * Minute
    /\ brd' = [brd EXCEPT !.ev = "tick"]
    /\ UNCHANGED <<pol, sel, boardVars, card, conv, pwl, fileVars, gitVars>>


-----------------------------------------------------------------------------
(* Properties of the boundary-crossing policy.                             *)

PolicyApplied == pol.done /\ pol.last # NoTimestamp

\* C2: whenever the calendar date of now is later than the calendar date of
\* fetchedAt (any number of days, months or years later), the entry is
\* reported stale.
C2_LaterDateIsStale ==
    (PolicyApplied /\ CalendarDay(now) > CalendarDay(pol.last)) => pol.stale

BeforeNoon(t) == t % Day < 12 * Hour

\* C3: for fetchedAt and now on the same calendar date, the entry is stale if
\* and only if fetchedAt is before local noon and now is at or after local noon.
C3_SameDateStaleIffNoonCrossed ==
    (PolicyApplied /\ CalendarDay(now) = CalendarDay(pol.last))
        => (pol.stale <=> (BeforeNoon(pol.last) /\ ~BeforeNoon(now)))

\* fetchedAt 11:00 checked at 12:30 of the same day: stale.
C3_Witness ==
    /\ PolicyApplied
    /\ CalendarDay(now) = CalendarDay(pol.last)
    /\ pol.last % Day = 11 * Hour
    /\ now % Day = 12 * Hour + 30 * Minute
    /\ pol.stale

-----------------------------------------------------------------------------
(* Properties of the nearest-sample selection.                             *)

SelApplied == sel.done /\ ~sel.forecast.missing

SelDist(w) == Abs(w.time - now)

Usable(w) == w.waveFt # Null /\ w.time # InvalidTime

\* The positions of S at minimal time distance from now among those of S.
Nearest(ws, S) == {i \in S : \A j \in S : SelDist(ws[i]) <= SelDist(ws[j])}

UsableIdx(ws) == {i \in 1..Len(ws) : Usable(ws[i])}

\* C10 as stated: the returned value is that of a sample with minimal
\* |sample.time - now| over the whole sequence (sequences whose times all parse).
C10_NearestOverWholeSequence ==
    LET ws == sel.forecast.waves IN
    (/\ SelApplied
     /\ Len(ws) > 0
     /\ \A i \in 1..Len(ws) : ws[i].time # InvalidTime)
        => \E i \in Nearest(ws, 1..Len(ws)) : sel.result.waveFt = ws[i].waveFt

\* C10 as amended: the returned value is that of a sample with minimal
\* |sample.time - now| among the samples whose magnitude is not null and whose
\* time parses; it is null when there is no such sample.
C10_NearestAmongUsable ==
    LET ws == sel.forecast.waves IN
    SelApplied =>
        IF UsableIdx(ws) = {} THEN sel.result.waveFt = Null
        ELSE \E i \in Nearest(ws, UsableIdx(ws)) : sel.result.waveFt = ws[i].waveFt

\* A null-magnitude sample is strictly nearer to now than every usable one,
\* and a usable sample's value is returned.
C10_Witness ==
    LET ws == sel.forecast.waves IN
    /\ SelApplied
    /\ UsableIdx(ws) # {}
    /\ \E k \in 1..Len(ws) :
          /\ ws[k].waveFt = Null /\ ws[k].time # InvalidTime
          /\ \A i \in UsableIdx(ws) : SelDist(ws[k]) < SelDist(ws[i])
    /\ sel.result.waveFt # Null

\* The sequence is in strictly ascending order of time (all times parse).
Ascending(ws) ==
    /\ \A i \in 1..Len(ws) : ws[i].time # InvalidTime
    /\ \A i, j \in 1..Len(ws) : i < j => ws[i].time < ws[j].time

\* The first position of a non-empty set of positions.
First(S) == CHOOSE i \in S : \A j \in S : i <= j

\* Two positions of S are at the same, minimal, distance from now.
Tie(ws, S) == Cardinality(Nearest(ws, S)) >= 2

\* C11 as stated: on a time-ascending sequence in which two samples are at
\* the same (minimal) absolute time distance from now, pickCurrentWave and
\* getClosestWave select the earlier of the two.
C11_EarlierOfTiedSamples ==
    LET ws == sel.forecast.waves
        hs == clo.hours
    IN /\ (SelApplied /\ Ascending(ws) /\ Tie(ws, 1..Len(ws)))
            => sel.result.waveFt = ws[First(Nearest(ws, 1..Len(ws)))].waveFt
       /\ (clo.done /\ Ascending(hs) /\ Tie(hs, 1..Len(hs)))
            => clo.result.waveM = hs[First(Nearest(hs, 1..Len(hs)))].sg

\* C11 as amended: pickCurrentWave selects the earlier of two samples that
\* tie for the minimal distance among the samples whose magnitude is not
\* null; getClosestWave selects the earlier of two samples that tie for the
\* minimal distance among all samples.
C11_EarlierOfTiedCandidates ==
    LET ws == sel.forecast.waves
        hs == clo.hours
    IN /\ (SelApplied /\ Ascending(ws) /\ Tie(ws, UsableIdx(ws)))
            => sel.result.waveFt = ws[First(Nearest(ws, UsableIdx(ws)))].waveFt
       /\ (clo.done /\ Ascending(hs) /\ Tie(hs, 1..Len(hs)))
            => clo.result.waveM = hs[First(Nearest(hs, 1..Len(hs)))].sg

\* Two samples of different non-null magnitude, one hour before and one hour
\* after now, and the magnitude of the earlier one is returned.
C11_Witness ==
    LET ws == sel.forecast.waves IN
    /\ SelApplied /\ Ascending(ws)
    /\ \E i, j \in UsableIdx(ws) :
          /\ i < j
          /\ {i, j} \subseteq Nearest(ws, UsableIdx(ws))
          /\ ws[i].waveFt # ws[j].waveFt
          /\ sel.result.waveFt = ws[i].waveFt

\* C12: for a missing forecast, an empty sample sequence, or a sequence in
\* which every sample's magnitude is null, pickCurrentWave returns the null
\* selection {waveFt: null} (a returned value, not an error).
C12_NullSelection ==
    LET ws == sel.forecast.waves IN
    (/\ sel.done
     /\ \/ sel.forecast.missing
        \/ Len(ws) = 0
        \/ \A i \in 1..Len(ws) : ws[i].waveFt = Null)
        => sel.result = [waveFt |-> Null]

\* Several samples, every one of null magnitude, one of them at now.
C12_Witness ==
    LET ws == sel.forecast.waves IN
    /\ sel.done /\ ~sel.forecast.missing
    /\ Len(ws) >= 2
    /\ \A i \in 1..Len(ws) : ws[i].waveFt = Null
    /\ \E i \in 1..Len(ws) : ws[i].time = now
    /\ sel.result = [waveFt |-> Null]

-----------------------------------------------------------------------------
(* Properties of the buoy adapters.                                        *)

\* The drawn response carries a body (the upstream answered).
BuoyApplied == buoy.done /\ buoy.resp.arrives

\* The lines of the body that carry the '#' marker and name WDIR.
MarkedHeaders ==
    {i \in 1..Len(buoy.resp.lines) :
        /\ buoy.resp.lines[i].hash
        /\ \E k \in 1..Len(buoy.resp.lines[i].tokens) : buoy.resp.lines[i].tokens[k] = "WDIR"}

HeaderLocated == MarkedHeaders # {}

TheHeader == buoy.resp.lines[First(MarkedHeaders)].tokens

\* The position of quantity q in the header, 0 when the header does not name it.
Col(q) ==
    IF \E k \in 1..Len(TheHeader) : TheHeader[k] = q
      THEN First({k \in 1..Len(TheHeader) : TheHeader[k] = q})
      ELSE 0

TheRows == DataLines(buoy.resp.lines)

\* The data rows, in report order, whose token in q's column is a number.
ValidRows(q) ==
    {i \in 1..Len(TheRows) :
        /\ Col(q) >= 1 /\ Col(q) <= Len(TheRows[i].tokens)
        /\ TheRows[i].tokens[Col(q)] \in DOMAIN Numerals}

\* The reading of q in the first such row; Null when there is none.
FirstValid(q) ==
    IF ValidRows(q) = {} THEN Null
    ELSE Numerals[TheRows[First(ValidRows(q))].tokens[Col(q)]]

\* The record of the per-quantity first valid readings, converted, with
\* `none` as the direction when there is no valid WDIR reading.
PerQuantityRecord(none) ==
    [airF |-> IF FirstValid("ATMP") = Null THEN Null ELSE cToF(FirstValid("ATMP")),
     waterF |-> IF FirstValid("WTMP") = Null THEN Null ELSE cToF(FirstValid("WTMP")),
     windKts |-> IF FirstValid("WSPD") = Null THEN Null ELSE mpsToKts(FirstValid("WSPD")),
     gustKts |-> IF FirstValid("GST") = Null THEN Null ELSE mpsToKts(FirstValid("GST")),
     windDirCardinal |->
         IF FirstValid("WDIR") = Null THEN none
         ELSE degToCardinal(buoy.impl, FirstValid("WDIR"))]

NewestImpls == {"part_000", "part_001:458"}

OnlyRowToken(q) == Token(TheRows[1].tokens, Col(q))

\* C18: weather.js fetchBuoy on a report with one '#'-marked header line
\* naming WDIR WSPD GST ATMP WTMP and one data row with 180 5.1 6.2 22.3 24.1
\* in those columns yields windDirCardinal "S", windKts 9.9, airF 72.1 and
\* waterF 75.4, each within 0.1.
C18_UpstreamFormatScenario ==
    (/\ BuoyApplied /\ buoy.resp.ok /\ buoy.impl = "weather.js"
     /\ Len(buoy.resp.lines) = 2 /\ MarkedHeaders = {1}
     /\ \A q \in Quantities : Col(q) > 0
     /\ OnlyRowToken("WDIR") = "180" /\ OnlyRowToken("WSPD") = "5.1"
     /\ OnlyRowToken("GST") = "6.2" /\ OnlyRowToken("ATMP") = "22.3"
     /\ OnlyRowToken("WTMP") = "24.1")
        => /\ buoy.out.kind = "record"
           /\ buoy.out.rec.windDirCardinal = "S"
           /\ buoy.out.rec.windKts # Null /\ Abs(buoy.out.rec.windKts - 99) <= 1
           /\ buoy.out.rec.airF # Null /\ Abs(buoy.out.rec.airF - 721) <= 1
           /\ buoy.out.rec.waterF # Null /\ Abs(buoy.out.rec.waterF - 754) <= 1

\* C19: for every report in which no header line can be located, fetchBuoy
\* (weather.js, part_001 lines 458-513) raises, and the safe wrapper returns
\* the default record, as for a transport failure.
C19_NoHeaderFailsAsAWhole ==
    (/\ BuoyApplied /\ buoy.impl \in {"weather.js", "part_001:458"}
     /\ ~HeaderLocated)
        => /\ buoy.out.kind = "throws"
           /\ buoy.safe = DefaultBuoy

\* C20: for every report with a header line and zero data rows, fetchBuoy
\* signals a failure instead of returning an observation record.
C20_NoRowsIsAFailure ==
    (BuoyApplied /\ buoy.resp.ok /\ HeaderLocated /\ Len(TheRows) = 0)
        => buoy.out.kind = "throws"

-----------------------------------------------------------------------------
(* Properties of the handlers.                                             *)

\* The request has been answered by handler h.
Answered(h) == agg.handler = h /\ agg.pc = "done"

\* Source a of weather.js failed: the buoy call threw, the forecast call
\* threw or gave an entry pickCurrentWave cannot read, the month call threw
\* or gave a month buildTodayTidesAndSun cannot read.
Failed(a) ==
    CASE a \in {"gulf", "bay"} -> agg.st[a] = "default"
      [] a = "waves" -> last.kind # "entry" \/ pickCurrentWaveThrows(sgForecast)
      [] a = "month" -> agg.month.kind # "data" \/ buildTodayTidesAndSunThrows(monthData)

FailedSources == {a \in AdaptersOf("weather.js") : Failed(a)}

\* C13: weather.js handler: when exactly one source fails (a persisted blob
\* of malformed schema included) while the others succeed, the handler
\* returns a success response without an error field in which the failed
\* source carries its default and the other sources carry their data.
C13_SingleSourceFailureIsContained ==
    (Answered("weather.js") /\ Cardinality(FailedSources) = 1)
        => /\ agg.resp.kind = "success"
           /\ "error" \notin DOMAIN agg.resp.body
           /\ IF agg.resp.kind # "success" THEN FALSE
              ELSE /\ Failed("waves") => agg.resp.body.waves = [waveFt |-> Null]
                   /\ Failed("gulf") => agg.resp.body.gulf = DefaultBuoy
                   /\ Failed("bay") => agg.resp.body.bay = DefaultBuoy
                   /\ Failed("month") =>
                         /\ agg.resp.body.tides = [low |-> NoTide, high |-> NoTide]
                         /\ agg.resp.body.sun = NoSun
                   /\ ~Failed("gulf") => agg.resp.body.gulf = agg.gulf
                   /\ ~Failed("bay") => agg.resp.body.bay = agg.bay

\* C14: in the handlers that await Promise.all (weather.js and part_002), a
\* response is returned only when no adapter call of the request is still
\* pending.
C14_ResponseAfterEveryAdapterSettled ==
    (agg.pc = "done" /\ Concurrent(agg.handler))
        => \A a \in AdaptersOf(agg.handler) : StatusOf(a) # "pending"

\* The keys of the response shape.
ResponseShape == {"gulf", "bay", "waves", "tides", "sun"}

\* C15: every error response of the handlers of weather.js, part_000 and
\* part_001 has a body with an error field and the keys gulf, bay, waves,
\* tides and sun.
C15_ErrorBodyHasFullShape ==
    (/\ agg.pc = "done"
     /\ agg.handler \in {"weather.js", "part_000", "part_001:115"}
     /\ agg.resp.kind = "error")
        => ({"error"} \cup ResponseShape) \subseteq DOMAIN agg.resp.body

\* C16: a request to weather.js's handler is answered although the request
\* to the Gulf buoy never completes, however much time passes.
C16_PassTerminatesWithoutOneAdapter ==
    Awaiting("weather.js") ~> Answered("weather.js")

-----------------------------------------------------------------------------
(* Properties of the month source of weather.js.                           *)

\* getUsharborsMonth has passed its githubGet.
MonthRead == agg.handler = "weather.js" /\ agg.month.pc \in {"text", "put", "settled"}

\* C27 as stated: when the month blob exists and parses, the call returns
\* its content and asks neither the upstream nor the store for a write.
C27_ExistingBlobIsReturned ==
    (MonthRead /\ agg.month.wrote = NoName /\ agg.blob.exists /\ agg.blob.parses)
        => /\ ~agg.month.asked
           /\ agg.month.pc = "settled"
           /\ agg.month.kind = "data"
           /\ agg.month.data = agg.blob.data

\* C27: when githubGet returns a month blob whose content parses, the call
\* returns that content without asking the upstream and without a write;
\* the upstream is asked only when githubGet returned null or content that
\* does not parse; a blob is written only after that, only with the
\* environment set, and under the year and month the clock showed when the
\* call began; when githubGet throws, the call throws without asking the
\* upstream and without a write.
C27_BlobReadIsReturned ==
    MonthRead
        => /\ agg.month.got = "content"
                => /\ agg.month.pc = "settled" /\ agg.month.kind = "data"
                   /\ agg.month.data = agg.blob.data
                   /\ ~agg.month.asked /\ agg.month.wrote = NoName
           /\ agg.month.asked <=> agg.month.got \in {"null", "garbage"}
           /\ agg.month.got = "threw"
                => /\ agg.month.pc = "settled" /\ agg.month.kind = "throws"
                   /\ agg.month.wrote = NoName
           /\ agg.month.wrote # NoName
                => /\ agg.month.asked /\ configured
                   /\ agg.month.wrote =
                         [year |-> CalendarDay(agg.month.began) \div DaysPerYear,
                          month |-> MonthIn(1, CalendarDay(agg.month.began) % DaysPerYear)]

C27_Witness ==
    /\ MonthRead /\ agg.month.got = "content"
    /\ agg.month.pc = "settled" /\ agg.month.data = GoodMonth

-----------------------------------------------------------------------------
(* Properties of the board controller.                                     *)

\* Every updateBoard call that was started has settled.
AllSettled == brd.started >= 1 /\ \A i \in Calls : brd.out[i] # "pending"

\* The calls that succeeded, and the one of them that was started last
\* (0 when there is none).
GoodCalls == {i \in Calls : brd.out[i] = "ok"}
LastGoodCall == IF GoodCalls = {} THEN 0 ELSE CHOOSE i \in GoodCalls : \A j \in GoodCalls : j <= i

\* C25: once all updateBoard calls have settled, overlapping ones included,
\* the board is online exactly if the call that was started last succeeded,
\* and lastGoodData is the payload of the last-started call that succeeded:
\* a call that was started earlier and settles later overrides nothing.
C25_LastStartedCallWins ==
    AllSettled
        => /\ brd.out[brd.started] = "ok" <=> brd.offlineSince = Null
           /\ brd.out[brd.started] = "ok" <=> ~brd.offline
           /\ brd.lastGoodData = LastGoodCall

\* C26: a failed updateBoard sets offlineSince if it is null and leaves it
\* unchanged otherwise, and never changes lastGoodData; a successful one
\* resets offlineSince to null; no other step changes either of them, and
\* the timestamp timer changes the text only while offlineSince is null.
C26_OfflineSinceFirstFailure ==
    [][/\ brd'.ev = "failed"
            => /\ brd'.offlineSince = IF brd.offlineSince = Null THEN now
                                      ELSE brd.offlineSince
               /\ brd'.lastGoodData = brd.lastGoodData
       /\ brd'.ev = "succeeded" => brd'.offlineSince = Null
       /\ brd'.ev \in {"start", "timer", "tick"}
            => /\ brd'.offlineSince = brd.offlineSince
               /\ brd'.lastGoodData = brd.lastGoodData
       /\ (brd'.ev = "timer" /\ brd'.text # brd.text)
            => /\ brd.offlineSince = Null
               /\ brd'.text = [kind |-> "UPDATED", at |-> now]]_vars

\* Call 1 succeeded, call 2 failed and call 3 failed a minute or more later:
\* the board is offline since the failure of call 2 and holds call 1's data.
C26_Witness ==
    /\ brd.ev = "failed"
    /\ brd.out[1] = "ok" /\ brd.out[2] = "failed" /\ brd.out[3] = "failed"
    /\ brd.offlineSince # Null /\ brd.offlineSince < now
    /\ brd.lastGoodData = 1
    /\ brd.text = [kind |-> "OFFLINE", at |-> brd.offlineSince]

-----------------------------------------------------------------------------
(* Properties of the compass conversion.                                   *)

\* degToCardinal of weather.js or of part_000 has been applied to bearing d.
CardApplied(d) == card.done /\ card.impl \in {"weather.js", "part_000"} /\ card.d = d

\* C21 as stated: the bearings 0, 22.5 and 360 degrees give "N", 90 gives "E".
C21_HalfSectorIsNorth ==
    /\ (CardApplied(0) \/ CardApplied(225) \/ CardApplied(3600)) => card.result = "N"
    /\ CardApplied(900) => card.result = "E"

\* C21: degToCardinal maps the bearings 0 and 360 degrees to "N", 22.5
\* degrees to "NNE" and 90 degrees to "E".
C21_SixteenPointRose ==
    /\ (CardApplied(0) \/ CardApplied(3600)) => card.result = "N"
    /\ CardApplied(225) => card.result = "NNE"
    /\ CardApplied(900) => card.result = "E"

C21_Witness == CardApplied(225) /\ card.result = "NNE"

-----------------------------------------------------------------------------
(* Properties of fetchStormglassFresh.                                     *)

\* C22: the sample list fetchStormglassFresh returns has one sample per
\* hourly entry of the upstream, in the same order and with the same
\* timestamps, and an entry whose magnitude is missing or not a number is
\* kept with waveFt = null.
C22_OneSamplePerHour ==
    (conv.done /\ ~conv.threw)
        => /\ Len(conv.entry.waves) = Len(conv.resp.hours)
           /\ \A i \in 1..Len(conv.resp.hours) :
                 /\ i <= Len(conv.entry.waves)
                 /\ conv.entry.waves[i].time = conv.resp.hours[i].time
                 /\ conv.resp.hours[i].sg \in {Null, Text}
                       => conv.entry.waves[i].waveFt = Null

C22_Witness ==
    /\ conv.done /\ ~conv.threw
    /\ Len(conv.resp.hours) = 3
    /\ conv.resp.hours[1].sg = Null /\ conv.resp.hours[2].sg = 100
    /\ conv.resp.hours[3].sg = Text
    /\ conv.entry.waves[1].waveFt = Null /\ conv.entry.waves[3].waveFt = Null

-----------------------------------------------------------------------------
(* Properties of pickWaveForLocalTime.                                     *)

\* The samples of the list whose magnitude the function takes as usable
\* (neither null nor 0), and those of them nearest in time to the current
\* instant.
UsablePositions(ws) == {i \in 1..Len(ws) : ws[i].waveFt # Null /\ ws[i].waveFt # 0}
NearestPositions(ws) ==
    {i \in UsablePositions(ws) :
        \A j \in UsablePositions(ws) : Abs(ws[i].time - now) <= Abs(ws[j].time - now)}

\* The list is ordered by time and its samples lie on more than one day.
SpansDays(ws) ==
    /\ Len(ws) >= 2
    /\ Ascending(ws)
    /\ CalendarDay(ws[1].time) # CalendarDay(ws[Len(ws)].time)

\* C24: for every persisted sample list that spans more than one day,
\* pickWaveForLocalTime returns the value of the sample with a magnitude
\* whose timestamp is nearest in absolute time to the current instant.
C24_NearestInTimeAcrossDays ==
    (pwl.done /\ pwl.offset = 0 /\ SpansDays(pwl.waves)
        /\ UsablePositions(pwl.waves) # {})
        => \E i \in NearestPositions(pwl.waves) :
              pwl.result = [waveFt |-> pwl.waves[i].waveFt]

-----------------------------------------------------------------------------
(* Properties of the elapsed-time cache.                                   *)

\* C1: at every invocation the cached entry is reused, with no upstream
\* request, exactly when an entry exists and now - timestamp < maxAge (4 h,
\* or 12 h for getStormglassWaves); otherwise exactly one upstream request is
\* issued.
C1_ReuseIffYoungerThanMaxAge ==
    [][(fpc = "idle" /\ fpc' # "idle") =>
         IF cacheFile.exists /\ now - cacheFile.timestamp < MaxAge(variant)
           THEN /\ fpc' = "returned" /\ fsource' = "cache"
                /\ fFetches' = fFetches /\ cacheFile' = cacheFile
           ELSE fpc' = "fetching" /\ fFetches' = fFetches + 1]_vars

\* An entry of a 4-hour cache reused at T + 3h59m.
C1_Witness ==
    /\ variant # "getStormglassWaves"
    /\ fpc = "returned" /\ fsource = "cache"
    /\ now - cacheFile.timestamp = 3 * Hour + 59 * Minute

\* C23: in the file-cached getters a failed upstream fetch never changes
\* the persisted cache entry: the step in which the upstream's failure is
\* received leaves the cache file as it was.
C23_FailedFetchKeepsTheEntry ==
    [][\A resp \in UpstreamResponses :
          (~resp.ok /\ FileFetchDone(resp)) => cacheFile' = cacheFile]_vars

-----------------------------------------------------------------------------
(* Properties of the forecast cache over the store.                        *)

\* The call of pass p ends in this step.
Ends(p) == pc[p] # "idle" /\ pc'[p] = "idle"

\* The upstream of pass p answers in this step, with a failure.
UpstreamFails(p) == pc[p] = "fetch" /\ pc'[p] = "idle" /\ okFetches' = okFetches

\* The stored entry pass p read, when it read a parseable one.
HadEntry(p) == file[p].found /\ file[p].parses

\* C4: whenever the persisted entry is stale or absent and the upstream fetch
\* succeeds, the call persists the fresh entry and returns it; after the call
\* the persisted entry equals the returned entry (for a configured store that
\* answers the PUT).
C4_FreshIsPersistedAndReturned ==
    [][\A p \in Passes :
         (configured /\ pc[p] = "write" /\ Ends(p) /\ last'.why # "write") =>
            /\ last' = Returned(p, file[p], fresh[p])
            /\ store'.exists /\ store'.parses /\ store'.entry = last'.entry]_vars

\* C5: when the entry is stale and the upstream fetch fails, the call returns
\* the last-known-good persisted entry if one exists, and fails only when
\* none exists.
C5_ServeStaleOnError ==
    [][\A p \in Passes :
         UpstreamFails(p) =>
            IF HadEntry(p) THEN last' = Returned(p, file[p], file[p].entry)
            ELSE last'.kind = "error"]_vars

InFlight(p) == pc[p] \in {"fetch", "write"}

\* C6: two concurrent passes that read the same stale entry of a configured
\* store do not both issue an upstream fetch.
C6_AtMostOneFetchPerStaleEntry ==
    configured =>
        \A p, q \in Passes :
            (p # q /\ InFlight(p) /\ InFlight(q)) => seen[p] # seen[q]

\* C7: the blob changes only by the write of one pass, to exactly the entry
\* that pass fetched, and only if no other write was accepted since that pass
\* read the blob: a write computed from a superseded read changes nothing.
C7_WriteIsWholeAndConditional ==
    [][store' # store =>
         \E p \in Passes :
            /\ pc[p] = "write" /\ Ends(p)
            /\ seen[p] = version /\ version' = version + 1
            /\ store'.exists /\ store'.parses /\ store'.entry = fresh[p]
            /\ \A q \in Passes \ {p} : pc'[q] = pc[q]]_vars

\* The write of a pass whose read had been superseded was rejected, and the
\* newer entry is still the persisted one.
C7_Witness ==
    /\ last.kind = "error" /\ last.why = "conflict"
    /\ store.exists /\ store.parses /\ version >= 1

\* C8: when the conditional write is rejected because the blob changed since
\* it was read, the call still returns an entry, the one that is current
\* after a single retry, and does not fail.
C8_ConflictStillReturnsCurrent ==
    [][\A p \in Passes :
         (pc[p] = "write" /\ Ends(p) /\ seen[p] # version) =>
            /\ last'.kind = "entry"
            /\ last'.entry = store'.entry]_vars

\* C9 as stated: in a window without midnight or noon, non-overlapping
\* invocations over a working store issue at most one upstream fetch.
C9_AtMostOneFetchInWindow == fetches <= 1

\* C9 as amended: in such a window at most one upstream fetch succeeds, and
\* once one has succeeded and been persisted every later invocation returns
\* the persisted entry without fetching.
C9_AtMostOneSuccessfulFetchInWindow ==
    [][/\ okFetches' <= 1
       /\ (okFetches = 1 /\ pc[1] = "idle" /\ (pc'[1] # "idle" \/ last' # last)) =>
            /\ pc'[1] = "idle" /\ fetches' = fetches
            /\ last'.kind = "entry" /\ last'.entry = store.entry
            /\ store' = store]_vars

\* A fetch succeeded and a later invocation at a later instant of the window
\* was served from the store.
C9_Witness ==
    /\ okFetches = 1 /\ pc[1] = "idle"
    /\ last.kind = "entry" /\ last.hadStored
    /\ last.entry = store.entry /\ store.entry.timestamp < now

-----------------------------------------------------------------------------
(* Specifications.  Each one runs one part of the program; the parts it    *)
(* leaves out are held at their idle values (a handler that is not         *)
(* deployed has pc "off").                                                 *)

InitPolicy ==
    /\ now \in PolicyInstants
    /\ pol \in [last : {t \in PolicyInstants : t <= now} \cup {NoTimestamp},
                stale : {FALSE}, done : {FALSE}]
    /\ sel = SelIdle
    /\ clo = CloIdle
    /\ card = CardIdle
    /\ conv = ConvIdle
    /\ pwl = PwlIdle
    /\ brd = BrdIdle
    /\ buoy = BuoyIdle
    /\ agg = AggIdle
    /\ variant = "getStormglassCached" /\ cacheFile = NoCacheFile /\ fpc = "off"
    /\ fret = NullWave /\ fsource = "none" /\ fFetches = 0
    /\ configured = FALSE /\ store = NoBlob
    /\ pc = [p \in Passes |-> "off"] /\ file = [p \in Passes |-> NoFile]
    /\ fresh = [p \in Passes |-> NoForecast] /\ last = NoOutcome
    /\ version = 0 /\ seen = [p \in Passes |-> 0] /\ fetches = 0 /\ okFetches = 0

NextPolicy == ApplyPolicy

SpecPolicy == InitPolicy /\ [][NextPolicy]_vars

InitSelect ==
    /\ now \in SelNow
    /\ \/ /\ sel \in [forecast : SelForecasts, result : {[waveFt |-> Null]}, done : {FALSE}]
          /\ clo = CloIdle
       \/ /\ sel = SelIdle
          /\ clo \in [hours : CloHours, result : {NullWave}, done : {FALSE}]
    /\ buoy = BuoyIdle
    /\ agg = AggIdle
    /\ card = CardIdle
    /\ conv = ConvIdle
    /\ pwl = PwlIdle
    /\ brd = BrdIdle
    /\ pol = PolIdle
    /\ variant = "getStormglassCached" /\ cacheFile = NoCacheFile /\ fpc = "off"
    /\ fret = NullWave /\ fsource = "none" /\ fFetches = 0
    /\ configured = FALSE /\ store = NoBlob
    /\ pc = [p \in Passes |-> "off"] /\ file = [p \in Passes |-> NoFile]
    /\ fresh = [p \in Passes |-> NoForecast] /\ last = NoOutcome
    /\ version = 0 /\ seen = [p \in Passes |-> 0] /\ fetches = 0 /\ okFetches = 0

NextSelect ==
    \/ PickCurrentWave
    \/ GetClosestWave

SpecSelect == InitSelect /\ [][NextSelect]_vars

InitFile ==
    /\ now = 0
    /\ variant \in Variants
    /\ cacheFile = NoCacheFile
    /\ fpc = "idle"
    /\ fret = NullWave
    /\ fsource = "none"
    /\ fFetches = 0
    /\ pol = PolIdle
    /\ sel = SelIdle
    /\ clo = CloIdle
    /\ card = CardIdle
    /\ conv = ConvIdle
    /\ pwl = PwlIdle
    /\ brd = BrdIdle
    /\ buoy = BuoyIdle
    /\ agg = AggIdle
    /\ configured = FALSE /\ store = NoBlob
    /\ pc = [p \in Passes |-> "off"] /\ file = [p \in Passes |-> NoFile]
    /\ fresh = [p \in Passes |-> NoForecast] /\ last = NoOutcome
    /\ version = 0 /\ seen = [p \in Passes |-> 0] /\ fetches = 0 /\ okFetches = 0

NextFile ==
    \/ FileCall
    \/ \E resp \in UpstreamResponses : FileFetchDone(resp)
    \/ FileRespond
    \/ \E t \in FileInstants : FileTick(t)

SpecFile == InitFile /\ [][NextFile]_vars

InitGit ==
    /\ now = 11 * Hour
    /\ configured \in BOOLEAN
    /\ store \in {NoBlob, GarbageBlob}
    /\ pc = [p \in Passes |-> "idle"]
    /\ file = [p \in Passes |-> NoFile]
    /\ fresh = [p \in Passes |-> NoForecast]
    /\ last = NoOutcome
    /\ version = 0
    /\ seen = [p \in Passes |-> 0]
    /\ fetches = 0
    /\ okFetches = 0
    /\ pol = PolIdle
    /\ sel = SelIdle
    /\ clo = CloIdle
    /\ card = CardIdle
    /\ conv = ConvIdle
    /\ pwl = PwlIdle
    /\ brd = BrdIdle
    /\ buoy = BuoyIdle
    /\ agg = AggIdle
    /\ variant = "getStormglassCached" /\ cacheFile = NoCacheFile /\ fpc = "off"
    /\ fret = NullWave /\ fsource = "none" /\ fFetches = 0

NextGit ==
    \/ \E p \in Passes : GetStored(p)
    \/ \E p \in Passes : GetFails(p)
    \/ \E p \in Passes, resp \in UpstreamResponses : FetchDone(p, resp)
    \/ \E p \in Passes : WriteDone(p)
    \/ \E p \in Passes : WriteFails(p)
    \/ \E t \in GitInstants : Tick(t)

\* Concurrent aggregation passes over a store that may fail.
SpecGit == InitGit /\ [][NextGit]_vars

\* The entries a blob may hold when a window starts.
StoredEntries(t) ==
    {[timestamp |-> ts, waves |-> mapHours(h), missing |-> FALSE] :
        ts \in {x \in GitInstants : x <= t}, h \in HourLists}

InitGitSeq ==
    /\ now \in GitInstants
    /\ configured = TRUE
    /\ store \in {NoBlob, GarbageBlob}
                 \cup {[exists |-> TRUE, sha |-> 1, parses |-> TRUE, entry |-> e] :
                          e \in StoredEntries(now)}
    /\ pc = [p \in Passes |-> "idle"]
    /\ file = [p \in Passes |-> NoFile]
    /\ fresh = [p \in Passes |-> NoForecast]
    /\ last = NoOutcome
    /\ version = 0
    /\ seen = [p \in Passes |-> 0]
    /\ fetches = 0
    /\ okFetches = 0
    /\ pol = PolIdle
    /\ sel = SelIdle
    /\ clo = CloIdle
    /\ card = CardIdle
    /\ conv = ConvIdle
    /\ pwl = PwlIdle
    /\ brd = BrdIdle
    /\ buoy = BuoyIdle
    /\ agg = AggIdle
    /\ variant = "getStormglassCached" /\ cacheFile = NoCacheFile /\ fpc = "off"
    /\ fret = NullWave /\ fsource = "none" /\ fFetches = 0

NextGitSeq ==
    \/ GetStored(1)
    \/ \E resp \in UpstreamResponses : FetchDone(1, resp)
    \/ WriteDone(1)
    \/ \E t \in GitInstants : TickInWindow(t)

\* One pass at a time over a working store, within one half of a day.
SpecGitSeq == InitGitSeq /\ [][NextGitSeq]_vars

InitBuoy ==
    /\ now = 0
    /\ buoy \in [impl : BuoyImpls, resp : BuoyResponses, out : {BuoyThrows},
                 safe : {DefaultBuoy}, done : {FALSE}]
    /\ agg = AggIdle
    /\ pol = PolIdle
    /\ sel = SelIdle
    /\ clo = CloIdle
    /\ card = CardIdle
    /\ conv = ConvIdle
    /\ pwl = PwlIdle
    /\ brd = BrdIdle
    /\ variant = "getStormglassCached" /\ cacheFile = NoCacheFile /\ fpc = "off"
    /\ fret = NullWave /\ fsource = "none" /\ fFetches = 0
    /\ configured = FALSE /\ store = NoBlob
    /\ pc = [p \in Passes |-> "off"] /\ file = [p \in Passes |-> NoFile]
    /\ fresh = [p \in Passes |-> NoForecast] /\ last = NoOutcome
    /\ version = 0 /\ seen = [p \in Passes |-> 0] /\ fetches = 0 /\ okFetches = 0

NextBuoy == FetchBuoy

\* The buoy adapters on drawn responses.
SpecBuoy == InitBuoy /\ [][NextBuoy]_vars

\* degToCardinal of either implementation on every drawn bearing.
InitCompass ==
    /\ now = 0
    /\ card \in [impl : BuoyImpls, d : Bearings, result : {"--"}, done : {FALSE}]
    /\ pol = PolIdle
    /\ sel = SelIdle
    /\ clo = CloIdle
    /\ conv = ConvIdle
    /\ pwl = PwlIdle
    /\ brd = BrdIdle
    /\ buoy = BuoyIdle
    /\ agg = AggIdle
    /\ variant = "getStormglassCached" /\ cacheFile = NoCacheFile /\ fpc = "off"
    /\ fret = NullWave /\ fsource = "none" /\ fFetches = 0
    /\ configured = FALSE /\ store = NoBlob
    /\ pc = [p \in Passes |-> "off"] /\ file = [p \in Passes |-> NoFile]
    /\ fresh = [p \in Passes |-> NoForecast] /\ last = NoOutcome
    /\ version = 0 /\ seen = [p \in Passes |-> 0] /\ fetches = 0 /\ okFetches = 0

NextCompass == DegToCardinal

SpecCompass == InitCompass /\ [][NextCompass]_vars

\* fetchStormglassFresh on every drawn response of the upstream.
InitFresh ==
    /\ now \in {11 * Hour, 13 * Hour}
    /\ conv \in [resp : FreshResponses, threw : {FALSE}, entry : {NoForecast}, done : {FALSE}]
    /\ pol = PolIdle
    /\ sel = SelIdle
    /\ clo = CloIdle
    /\ card = CardIdle
    /\ pwl = PwlIdle
    /\ brd = BrdIdle
    /\ buoy = BuoyIdle
    /\ agg = AggIdle
    /\ variant = "getStormglassCached" /\ cacheFile = NoCacheFile /\ fpc = "off"
    /\ fret = NullWave /\ fsource = "none" /\ fFetches = 0
    /\ configured = FALSE /\ store = NoBlob
    /\ pc = [p \in Passes |-> "off"] /\ file = [p \in Passes |-> NoFile]
    /\ fresh = [p \in Passes |-> NoForecast] /\ last = NoOutcome
    /\ version = 0 /\ seen = [p \in Passes |-> 0] /\ fetches = 0 /\ okFetches = 0

NextFresh == FetchStormglassFresh

SpecFresh == InitFresh /\ [][NextFresh]_vars

\* pickWaveForLocalTime on every drawn sample list, on the second day.
InitLocal ==
    /\ now \in {Day + 11 * Hour, Day + 20 * Hour}
    /\ pwl \in [waves : PwlWaves, offset : Offsets, result : {[waveFt |-> Null]}, done : {FALSE}]
    /\ pol = PolIdle
    /\ sel = SelIdle
    /\ clo = CloIdle
    /\ card = CardIdle
    /\ conv = ConvIdle
    /\ brd = BrdIdle
    /\ buoy = BuoyIdle
    /\ agg = AggIdle
    /\ variant = "getStormglassCached" /\ cacheFile = NoCacheFile /\ fpc = "off"
    /\ fret = NullWave /\ fsource = "none" /\ fFetches = 0
    /\ configured = FALSE /\ store = NoBlob
    /\ pc = [p \in Passes |-> "off"] /\ file = [p \in Passes |-> NoFile]
    /\ fresh = [p \in Passes |-> NoForecast] /\ last = NoOutcome
    /\ version = 0 /\ seen = [p \in Passes |-> 0] /\ fetches = 0 /\ okFetches = 0

NextLocal == PickWaveForLocalTime

SpecLocal == InitLocal /\ [][NextLocal]_vars

\* The page has loaded its script: nothing is shown and no call was made.
InitBoard ==
    /\ now = 0
    /\ brd = [BrdIdle EXCEPT !.pc = "on"]
    /\ pol = PolIdle
    /\ sel = SelIdle
    /\ clo = CloIdle
    /\ card = CardIdle
    /\ conv = ConvIdle
    /\ pwl = PwlIdle
    /\ buoy = BuoyIdle
    /\ agg = AggIdle
    /\ variant = "getStormglassCached" /\ cacheFile = NoCacheFile /\ fpc = "off"
    /\ fret = NullWave /\ fsource = "none" /\ fFetches = 0
    /\ configured = FALSE /\ store = NoBlob
    /\ pc = [p \in Passes |-> "off"] /\ file = [p \in Passes |-> NoFile]
    /\ fresh = [p \in Passes |-> NoForecast] /\ last = NoOutcome
    /\ version = 0 /\ seen = [p \in Passes |-> 0] /\ fetches = 0 /\ okFetches = 0

NextBoard ==
    \/ StartUpdate
    \/ \E i \in Calls : UpdateSucceeds(i)
    \/ \E i \in Calls : UpdateFails(i)
    \/ TimestampTimer
    \/ BoardTick

SpecBoard == InitBoard /\ [][NextBoard]_vars

\* The methods a handler distinguishes, and the month blob it may find.
Methods(h) == IF h = "part_000" THEN {"GET", "OPTIONS"} ELSE {"GET"}
BlobsOf(h) == IF h = "weather.js" THEN MonthBlobs ELSE {NoMonthBlob}

\* Time passes while the handler awaits, into the afternoon of 1 January or
\* into 1 February.
AggInstants == {11 * Hour + 30 * Minute, 12 * Hour + 30 * Minute, 31 * Day + 30 * Minute}
AggTick(t) == agg.pc = "awaiting" /\ Tick(t)

\* One request to one of the handlers, on 1 January at 11:00 or on
\* 31 January at 23:30.
InitAgg ==
    /\ now \in {11 * Hour, 30 * Day + 23 * Hour + 30 * Minute}
    /\ agg \in {[AggIdle EXCEPT !.handler = h, !.method = m, !.pc = "received", !.blob = b] :
                   h \in Handlers, m \in UNION {Methods(k) : k \in Handlers},
                   b \in MonthBlobs}
    /\ agg.method \in Methods(agg.handler)
    /\ agg.blob \in BlobsOf(agg.handler)
    /\ configured \in IF Concurrent(agg.handler) THEN BOOLEAN ELSE {FALSE}
    /\ store \in IF agg.handler = "weather.js" THEN ForecastBlobs ELSE {NoBlob}
    /\ variant = IF agg.handler = "part_001:115" THEN "getCachedWaves"
                 ELSE "getStormglassCached"
    /\ pc = [p \in Passes |-> "off"]
    /\ file = [p \in Passes |-> NoFile]
    /\ fresh = [p \in Passes |-> NoForecast]
    /\ last = NoOutcome
    /\ version = 0
    /\ seen = [p \in Passes |-> 0]
    /\ fetches = 0
    /\ okFetches = 0
    /\ cacheFile = NoCacheFile /\ fpc = "off"
    /\ fret = NullWave /\ fsource = "none" /\ fFetches = 0
    /\ pol = PolIdle
    /\ sel = SelIdle
    /\ clo = CloIdle
    /\ card = CardIdle
    /\ conv = ConvIdle
    /\ pwl = PwlIdle
    /\ brd = BrdIdle
    /\ buoy = BuoyIdle

\* Every step of a request but the answer to the Gulf buoy's request.
NextAggButGulf ==
    \/ Invoke
    \/ \E resp \in AggBuoyResponses : BuoySettles("bay", resp)
    \/ ForecastGet
    \/ ForecastGetFails
    \/ \E resp \in UpstreamResponses : ForecastFetchDone(resp)
    \/ ForecastWriteDone
    \/ ForecastWriteFails
    \/ MonthGet
    \/ MonthGetFails
    \/ \E resp \in TextResponses : MonthText(resp)
    \/ \E accepted \in BOOLEAN : MonthPut(accepted)
    \/ \E resp \in UpstreamResponses : WavesSettles002(resp)
    \/ \E resp \in SunResponses : SunSettles(resp)
    \/ WavesCall
    \/ \E resp \in UpstreamResponses : WavesFetchDone(resp)
    \/ WavesReturned
    \/ \E resp \in TideResponses : TidesSettles(resp)
    \/ Respond
    \/ \E t \in AggInstants : AggTick(t)

NextAgg ==
    \/ NextAggButGulf
    \/ \E resp \in AggBuoyResponses : BuoySettles("gulf", resp)

SpecAgg == InitAgg /\ [][NextAgg]_vars

\* The same, where every enabled step but the answer to the Gulf buoy's
\* request is eventually taken: that request may stay without an answer.
SpecAggLive == InitAgg /\ [][NextAgg]_vars /\ WF_vars(NextAggButGulf)

====
